---------------------------- MODULE Spec2Model ----------------------------
(* The Resistance: Avalon game engine (game_engine/game.py, models.py,     *)
(* config.py, enums.py) as a state machine.  Players are identified by     *)
(* their index 0..player_count-1 in AvalonGame.players (Player equality    *)
(* is by name, names are unique).  Every handler is a function from the    *)
(* game object to the game object it leaves behind plus the error it       *)
(* raised ("ok" when it returned normally).                                *)
EXTENDS Integers, Sequences, FiniteSets, TLC

VARIABLES
    player_count,        \* AvalonGame.player_count
    players,             \* AvalonGame.players: index -> Player fields
    quests,              \* AvalonGame.quests: 1..5 -> Quest fields
    current_quest_idx,   \* 0-based
    current_leader_idx,  \* 0-based
    phase,
    failed_votes_count,
    succeeded_quests,
    failed_quests,
    assassin,            \* player index or NoPlayer
    assassinated_player, \* player index or NoPlayer
    call                 \* the last command issued and how it ended

gvars == <<player_count, players, quests, current_quest_idx, current_leader_idx,
           phase, failed_votes_count, succeeded_quests, failed_quests,
           assassin, assassinated_player>>

vars == <<player_count, players, quests, current_quest_idx, current_leader_idx,
          phase, failed_votes_count, succeeded_quests, failed_quests,
          assassin, assassinated_player, call>>

---------------------------------------------------------------------------
(* enums.py *)

None == "None"

\* None where a Player is expected (leader, assassin, assassinated_player)
NoPlayer == -1

GOOD == "GOOD"
EVIL == "EVIL"

GoodRoles == {"MERLIN", "PERCIVAL", "LOYAL_SERVANT"}
EvilRoles == {"ASSASSIN", "MORGANA", "MORDRED", "OBERON", "MINION"}
Role == GoodRoles \cup EvilRoles

GamePhase == {"SETUP", "TEAM_BUILDING", "TEAM_VOTING", "QUEST",
              "ASSASSINATION", "GAME_END"}

QuestResult == {"SUCCESS", "FAIL", "PENDING", "NOT_STARTED"}

VoteType == {"APPROVE", "REJECT", "SUCCESS", "FAIL"}

---------------------------------------------------------------------------
(* config.py *)

MinPlayers == 5

MaxPlayersAllowed == 10

MAX_FAILED_VOTES == 5

NumQuests == 5

WinsNeeded == 3

ROLE_CONFIGS ==
    [n \in MinPlayers..MaxPlayersAllowed |->
        CASE n = 5  -> [good |-> 3, evil |-> 2]
          [] n = 6  -> [good |-> 4, evil |-> 2]
          [] n = 7  -> [good |-> 4, evil |-> 3]
          [] n = 8  -> [good |-> 5, evil |-> 3]
          [] n = 9  -> [good |-> 6, evil |-> 3]
          [] n = 10 -> [good |-> 6, evil |-> 4]]

RequiredRoles == <<"MERLIN", "ASSASSIN">>

QUEST_CONFIGS ==
    [n \in MinPlayers..MaxPlayersAllowed |->
        CASE n = 5  -> <<2, 3, 2, 3, 3>>
          [] n = 6  -> <<2, 3, 4, 3, 4>>
          [] n = 7  -> <<2, 3, 3, 4, 4>>
          [] n = 8  -> <<3, 4, 4, 5, 5>>
          [] n = 9  -> <<3, 4, 4, 5, 5>>
          [] n = 10 -> <<3, 4, 4, 5, 5>>]

\* 0-indexed quest positions that need 2 fail votes; every other one needs 1.
QUEST_FAILURES_REQUIRED ==
    [n \in MinPlayers..MaxPlayersAllowed |->
        CASE n \in {5, 6}    -> {}
          [] n \in {7, 8, 9} -> {3}
          [] n = 10          -> {3, 4}]

---------------------------------------------------------------------------
(* helpers on sequences and dicts *)

Range(s) == {s[i] : i \in DOMAIN s}

\* dict[key] = value
Put(d, k, v) == [x \in DOMAIN d \cup {k} |-> IF x = k THEN v ELSE d[x]]

EmptyDict == [x \in {} |-> None]

\* list.remove at a known position
RemoveAt(s, k) == [i \in 1..(Len(s) - 1) |-> IF i < k THEN s[i] ELSE s[i + 1]]

\* sum(1 for v in d.values() if v == vote)
CountVotes(d, vote) == Cardinality({p \in DOMAIN d : d[p] = vote})

---------------------------------------------------------------------------
(* models.py: Player *)

TeamOfRole(role) == IF role \in GoodRoles THEN GOOD ELSE EVIL

NewPlayer ==
    [role |-> None, team |-> None,
     team_vote_history |-> <<>>, quest_vote_history |-> <<>>]

\* assign_role without the check for a role already held
Player_assign_role_overwrites(pl, role) ==
    IF role \notin Role THEN [err |-> "ValueError", player |-> pl]
    ELSE [err |-> "ok",
          player |-> [pl EXCEPT !.role = role, !.team = TeamOfRole(role)]]

Player_assign_role(pl, role) ==
    IF role \notin Role THEN [err |-> "ValueError", player |-> pl]
    ELSE IF pl.role # None THEN [err |-> "ValueError", player |-> pl]
    ELSE [err |-> "ok",
          player |-> [pl EXCEPT !.role = role, !.team = TeamOfRole(role)]]

\* add_team_vote without the check of the vote's kind
Player_add_team_vote_anyVote(pl, vote, quest_number, leader, proposed_team, quest_result) ==
    IF quest_number < 1 THEN [err |-> "ValueError", player |-> pl]
    ELSE [err |-> "ok",
          player |-> [pl EXCEPT !.team_vote_history =
                        Append(@, [quest_number |-> quest_number,
                                   leader |-> leader,
                                   proposed_team |-> proposed_team,
                                   vote |-> vote,
                                   quest_result |-> quest_result])]]

Player_add_team_vote(pl, vote, quest_number, leader, proposed_team, quest_result) ==
    IF vote \notin {"APPROVE", "REJECT"} THEN [err |-> "ValueError", player |-> pl]
    ELSE IF quest_number < 1 THEN [err |-> "ValueError", player |-> pl]
    ELSE [err |-> "ok",
          player |-> [pl EXCEPT !.team_vote_history =
                        Append(@, [quest_number |-> quest_number,
                                   leader |-> leader,
                                   proposed_team |-> proposed_team,
                                   vote |-> vote,
                                   quest_result |-> quest_result])]]

Player_add_quest_vote(pl, vote, quest_number, team) ==
    IF vote \notin {"SUCCESS", "FAIL"} THEN [err |-> "ValueError", player |-> pl]
    ELSE IF quest_number < 1 THEN [err |-> "ValueError", player |-> pl]
    ELSE [err |-> "ok",
          player |-> [pl EXCEPT !.quest_vote_history =
                        Append(@, [quest_number |-> quest_number,
                                   team |-> team,
                                   vote |-> vote])]]

---------------------------------------------------------------------------
(* models.py: Quest *)

\* a quest constructed with the result PENDING
NewQuest_pending(quest_number, required_team_size, fails_required) ==
    [quest_number |-> quest_number,
     required_team_size |-> required_team_size,
     fails_required |-> fails_required,
     team |-> <<>>,
     pre_quest_votes |-> EmptyDict,
     in_quest_votes |-> EmptyDict,
     result |-> "PENDING",
     leader |-> NoPlayer,
     team_vote_counter |-> 0]

NewQuest(quest_number, required_team_size, fails_required) ==
    [quest_number |-> quest_number,
     required_team_size |-> required_team_size,
     fails_required |-> fails_required,
     team |-> <<>>,
     pre_quest_votes |-> EmptyDict,
     in_quest_votes |-> EmptyDict,
     result |-> "NOT_STARTED",
     leader |-> NoPlayer,
     team_vote_counter |-> 0]

\* Quest.set_team with the assignments made before the shape checks
Quest_set_team_assignFirst(q, team, leader) ==
    LET q2 == [q EXCEPT !.team = team, !.leader = leader,
                        !.pre_quest_votes = EmptyDict,
                        !.in_quest_votes = EmptyDict]
    IN  IF Len(team) # q.required_team_size \/ Cardinality(Range(team)) # Len(team)
        THEN [err |-> "ValueError", quest |-> q2]
        ELSE [err |-> "ok", quest |-> q2]

\* Quest.set_team without the two clear() calls
Quest_set_team_keepsVotes(q, team, leader) ==
    IF Len(team) # q.required_team_size THEN [err |-> "ValueError", quest |-> q]
    ELSE IF Cardinality(Range(team)) # Len(team) THEN [err |-> "ValueError", quest |-> q]
    ELSE [err |-> "ok", quest |-> [q EXCEPT !.team = team, !.leader = leader]]

\* Quest.set_team without the check for repeated members
Quest_set_team_allowsDuplicates(q, team, leader) ==
    IF Len(team) # q.required_team_size THEN [err |-> "ValueError", quest |-> q]
    ELSE [err |-> "ok",
          quest |-> [q EXCEPT !.team = team, !.leader = leader,
                              !.pre_quest_votes = EmptyDict,
                              !.in_quest_votes = EmptyDict]]

\* Quest.set_team: both shape checks come before any assignment.
Quest_set_team(q, team, leader) ==
    IF Len(team) # q.required_team_size THEN [err |-> "ValueError", quest |-> q]
    ELSE IF Cardinality(Range(team)) # Len(team) THEN [err |-> "ValueError", quest |-> q]
    ELSE [err |-> "ok",
          quest |-> [q EXCEPT !.team = team, !.leader = leader,
                              !.pre_quest_votes = EmptyDict,
                              !.in_quest_votes = EmptyDict]]

\* Quest.add_vote refusing a player whose vote is already in the tally
Quest_add_vote_once(q, pls, p, vote) ==
    IF vote \in {"APPROVE", "REJECT"} THEN
        LET q2 == [q EXCEPT !.pre_quest_votes = Put(@, p, vote)]
            r == Player_add_team_vote(pls[p], vote, q.quest_number, q.leader,
                                      q.team, None)
        IN  IF p \in DOMAIN q.pre_quest_votes
            THEN [err |-> "ValueError", quest |-> q, players |-> pls]
            ELSE IF q.leader = NoPlayer
            THEN [err |-> "AttributeError", quest |-> q2, players |-> pls]
            ELSE [err |-> r.err, quest |-> q2,
                  players |-> [pls EXCEPT ![p] = r.player]]
    ELSE IF vote \in {"SUCCESS", "FAIL"} THEN
        IF p \notin Range(q.team) \/ p \in DOMAIN q.in_quest_votes
        THEN [err |-> "ValueError", quest |-> q, players |-> pls]
        ELSE
            LET q2 == [q EXCEPT !.in_quest_votes = Put(@, p, vote)]
                r == Player_add_quest_vote(pls[p], vote, q.quest_number, q.team)
            IN  [err |-> r.err, quest |-> q2,
                 players |-> [pls EXCEPT ![p] = r.player]]
    ELSE [err |-> "ValueError", quest |-> q, players |-> pls]

\* Quest.add_vote: the tally entry is written first, then the record is
\* appended to the player's history.  self.leader.name fails on a quest whose
\* leader was never set, after the tally entry has been written.
Quest_add_vote(q, pls, p, vote) ==
    IF vote \in {"APPROVE", "REJECT"} THEN
        LET q2 == [q EXCEPT !.pre_quest_votes = Put(@, p, vote)]
            r == Player_add_team_vote(pls[p], vote, q.quest_number, q.leader,
                                      q.team, None)
        IN  IF q.leader = NoPlayer
            THEN [err |-> "AttributeError", quest |-> q2, players |-> pls]
            ELSE [err |-> r.err, quest |-> q2,
                  players |-> [pls EXCEPT ![p] = r.player]]
    ELSE IF vote \in {"SUCCESS", "FAIL"} THEN
        IF p \notin Range(q.team)
        THEN [err |-> "ValueError", quest |-> q, players |-> pls]
        ELSE
            LET q2 == [q EXCEPT !.in_quest_votes = Put(@, p, vote)]
                r == Player_add_quest_vote(pls[p], vote, q.quest_number, q.team)
            IN  [err |-> r.err, quest |-> q2,
                 players |-> [pls EXCEPT ![p] = r.player]]
    ELSE [err |-> "ValueError", quest |-> q, players |-> pls]

\* the outcome with a strict comparison
QuestOutcome_strict(fail_votes, fails_required) ==
    IF fail_votes > fails_required THEN "FAIL" ELSE "SUCCESS"

\* QuestResult.FAIL if fail_votes >= self.fails_required else SUCCESS
QuestOutcome(fail_votes, fails_required) ==
    IF fail_votes >= fails_required THEN "FAIL" ELSE "SUCCESS"

\* position of next(r for r in history if r.quest_number == quest_number); 0 if none
FirstRecordOf(history, quest_number) ==
    IF \E i \in DOMAIN history : history[i].quest_number = quest_number
    THEN CHOOSE i \in DOMAIN history :
            /\ history[i].quest_number = quest_number
            /\ \A j \in 1..(i - 1) : history[j].quest_number # quest_number
    ELSE 0

\* The body of the loop of Quest.process_result for one voter: the first
\* record of this quest number is removed from the voter's history and a record
\* of the current proposal, carrying the result, is appended.
Reappend(pl, q, vote, result) ==
    LET k == FirstRecordOf(pl.team_vote_history, q.quest_number)
        removed == [pl EXCEPT !.team_vote_history = RemoveAt(@, k)]
    IN  IF k = 0 THEN pl
        ELSE Player_add_team_vote(removed, vote, q.quest_number, q.leader,
                                  q.team, result).player

\* len(self.in_quest_votes) != self.required_team_size, negated
AllTeamVoted(q) == Cardinality(DOMAIN q.in_quest_votes) = q.required_team_size

\* Quest.process_result.  A voter without a record of this quest makes next()
\* raise StopIteration; the voters that have one are then taken as processed.
Quest_process_result(q, pls) ==
    IF ~AllTeamVoted(q)
    THEN [err |-> "ValueError", quest |-> q, players |-> pls, result |-> None]
    ELSE
        LET fail_votes == CountVotes(q.in_quest_votes, "FAIL")
            result == QuestOutcome(fail_votes, q.fails_required)
            q2 == [q EXCEPT !.result = result]
            voters == DOMAIN q.pre_quest_votes
            pls2 == [p \in DOMAIN pls |->
                        IF p \in voters
                        THEN Reappend(pls[p], q, q.pre_quest_votes[p], result)
                        ELSE pls[p]]
            missing == \E p \in voters :
                          FirstRecordOf(pls[p].team_vote_history, q.quest_number) = 0
        IN  [err |-> IF missing THEN "StopIteration" ELSE "ok",
             quest |-> q2, players |-> pls2, result |-> result]

---------------------------------------------------------------------------
(* game.py: AvalonGame *)

\* The game object as one value.
Game ==
    [player_count |-> player_count,
     players |-> players,
     quests |-> quests,
     current_quest_idx |-> current_quest_idx,
     current_leader_idx |-> current_leader_idx,
     phase |-> phase,
     failed_votes_count |-> failed_votes_count,
     succeeded_quests |-> succeeded_quests,
     failed_quests |-> failed_quests,
     assassin |-> assassin,
     assassinated_player |-> assassinated_player]

\* the table of fail votes read with the quest number instead of the index
_setup_quests_byQuestNumber(n) ==
    [i \in 1..Len(QUEST_CONFIGS[n]) |->
        NewQuest(i, QUEST_CONFIGS[n][i],
                 IF i \in QUEST_FAILURES_REQUIRED[n] THEN 2 ELSE 1)]

_setup_quests(n) ==
    [i \in 1..Len(QUEST_CONFIGS[n]) |->
        NewQuest(i, QUEST_CONFIGS[n][i],
                 IF (i - 1) \in QUEST_FAILURES_REQUIRED[n] THEN 2 ELSE 1)]

get_current_quest(g) == g.quests[g.current_quest_idx + 1]

get_current_leader(g) == g.current_leader_idx

\* the rotation skips a seat
advance_leader_byTwo(g) ==
    [g EXCEPT !.current_leader_idx = (@ + 2) % g.player_count]

\* the rotation without the wrap: the last seat keeps the lead
advance_leader_noWrap(g) ==
    [g EXCEPT !.current_leader_idx =
        IF @ + 1 = g.player_count THEN @ ELSE @ + 1]

advance_leader(g) ==
    [g EXCEPT !.current_leader_idx = (g.current_leader_idx + 1) % g.player_count]

\* approval by half the table
MajorityApproves_half(approve_votes, n) == 2 * approve_votes >= n

\* tabulation one vote early
TeamVoteComplete_early(q, n) == Cardinality(DOMAIN q.pre_quest_votes) >= n - 1

\* attrition one rejection late
AttritionReached_late(count) == count > MAX_FAILED_VOTES

\* no team check on a FAIL vote
GoodPlayerFails_never(vote, pl) == FALSE

\* approve_votes > self.player_count / 2 (true division)
MajorityApproves(approve_votes, n) == 2 * approve_votes > n

\* len(current_quest.pre_quest_votes) == self.player_count
TeamVoteComplete(q, n) == Cardinality(DOMAIN q.pre_quest_votes) = n

\* the quest is processed one vote early
QuestVoteComplete_early(q) ==
    Cardinality(DOMAIN q.in_quest_votes) >= q.required_team_size - 1

\* len(current_quest.in_quest_votes) == current_quest.required_team_size
QuestVoteComplete(q) == Cardinality(DOMAIN q.in_quest_votes) = q.required_team_size

\* self.failed_votes_count >= MAX_FAILED_VOTES
AttritionReached(count) == count >= MAX_FAILED_VOTES

\* vote == VoteType.FAIL and player.team != Team.EVIL
GoodPlayerFails(vote, pl) == vote = "FAIL" /\ pl.team # EVIL

\* player not in current_quest.team
NotOnTeam(p, q) == p \notin Range(q.team)

\* propose_team without the phase check
propose_team_anyPhase(g, leader, team) ==
    IF leader # get_current_leader(g) THEN [err |-> "leader", g |-> g]
    ELSE
        LET r == Quest_set_team(get_current_quest(g), team, leader)
        IN  IF r.err # "ok"
            THEN [err |-> "team",
                  g |-> [g EXCEPT !.quests[g.current_quest_idx + 1] = r.quest]]
            ELSE [err |-> "ok",
                  g |-> [g EXCEPT !.quests[g.current_quest_idx + 1] = r.quest,
                                  !.phase = "TEAM_VOTING"]]

propose_team(g, leader, team) ==
    IF g.phase # "TEAM_BUILDING" THEN [err |-> "phase", g |-> g]
    ELSE IF leader # get_current_leader(g) THEN [err |-> "leader", g |-> g]
    ELSE
        LET r == Quest_set_team(get_current_quest(g), team, leader)
        IN  IF r.err # "ok"
            THEN [err |-> "team",
                  g |-> [g EXCEPT !.quests[g.current_quest_idx + 1] = r.quest]]
            ELSE [err |-> "ok",
                  g |-> [g EXCEPT !.quests[g.current_quest_idx + 1] = r.quest,
                                  !.phase = "TEAM_VOTING"]]

\* _process_team_votes without the reset of the count on approval
_process_team_votes_keepsCount(g) ==
    LET current_quest == get_current_quest(g)
        approve_votes == CountVotes(current_quest.pre_quest_votes, "APPROVE")
    IN  IF MajorityApproves(approve_votes, g.player_count)
        THEN [g EXCEPT !.phase = "QUEST"]
        ELSE
            LET g2 == advance_leader(
                        [g EXCEPT !.failed_votes_count = @ + 1,
                                  !.quests[g.current_quest_idx + 1].team_vote_counter = @ + 1])
            IN  IF AttritionReached(g2.failed_votes_count)
                THEN [g2 EXCEPT !.phase = "GAME_END"]
                ELSE [g2 EXCEPT !.phase = "TEAM_BUILDING"]

_process_team_votes(g) ==
    LET current_quest == get_current_quest(g)
        approve_votes == CountVotes(current_quest.pre_quest_votes, "APPROVE")
    IN  IF MajorityApproves(approve_votes, g.player_count)
        THEN [g EXCEPT !.failed_votes_count = 0, !.phase = "QUEST"]
        ELSE
            LET g2 == advance_leader(
                        [g EXCEPT !.failed_votes_count = @ + 1,
                                  !.quests[g.current_quest_idx + 1].team_vote_counter = @ + 1])
            IN  IF AttritionReached(g2.failed_votes_count)
                THEN [g2 EXCEPT !.phase = "GAME_END"]
                ELSE [g2 EXCEPT !.phase = "TEAM_BUILDING"]

vote_for_team(g, p, vote) ==
    IF g.phase # "TEAM_VOTING" THEN [err |-> "phase", g |-> g]
    ELSE IF vote \notin {"APPROVE", "REJECT"} THEN [err |-> "vote", g |-> g]
    ELSE
        LET r == Quest_add_vote(get_current_quest(g), g.players, p, vote)
            g2 == [g EXCEPT !.quests[g.current_quest_idx + 1] = r.quest,
                            !.players = r.players]
        IN  IF r.err # "ok" THEN [err |-> r.err, g |-> g2]
            ELSE IF TeamVoteComplete(r.quest, g.player_count)
            THEN [err |-> "ok", g |-> _process_team_votes(g2)]
            ELSE [err |-> "ok", g |-> g2]

\* the records are left as the votes wrote them
Backfill_none(history, quest_number, result) == history

\* the backfill loop of _process_quest_result for one history
Backfill(history, quest_number, result) ==
    [i \in DOMAIN history |->
        IF history[i].quest_number = quest_number
        THEN [history[i] EXCEPT !.quest_result = result]
        ELSE history[i]]

\* _process_quest_result with the game ended at three successes
_process_quest_result_skipAssassination(g) ==
    LET current_quest == get_current_quest(g)
        g2 == [g EXCEPT !.players =
                 [p \in DOMAIN g.players |->
                    [g.players[p] EXCEPT !.team_vote_history =
                        Backfill(@, current_quest.quest_number, current_quest.result)]]]
    IN  IF g2.succeeded_quests >= WinsNeeded \/ g2.failed_quests >= WinsNeeded
        THEN [g2 EXCEPT !.phase = "GAME_END"]
        ELSE [advance_leader([g2 EXCEPT !.current_quest_idx = @ + 1])
                EXCEPT !.phase = "TEAM_BUILDING"]

\* _process_quest_result ending the game at four quests of one result
_process_quest_result_endsAtFour(g) ==
    LET current_quest == get_current_quest(g)
        g2 == [g EXCEPT !.players =
                 [p \in DOMAIN g.players |->
                    [g.players[p] EXCEPT !.team_vote_history =
                        Backfill(@, current_quest.quest_number, current_quest.result)]]]
    IN  IF g2.succeeded_quests >= WinsNeeded + 1
        THEN [g2 EXCEPT !.phase = "ASSASSINATION"]
        ELSE IF g2.failed_quests >= WinsNeeded + 1
        THEN [g2 EXCEPT !.phase = "GAME_END"]
        ELSE [advance_leader([g2 EXCEPT !.current_quest_idx = @ + 1])
                EXCEPT !.phase = "TEAM_BUILDING"]

\* _process_quest_result without the rotation of the lead
_process_quest_result_keepsLeader(g) ==
    LET current_quest == get_current_quest(g)
        g2 == [g EXCEPT !.players =
                 [p \in DOMAIN g.players |->
                    [g.players[p] EXCEPT !.team_vote_history =
                        Backfill(@, current_quest.quest_number, current_quest.result)]]]
    IN  IF g2.succeeded_quests >= WinsNeeded
        THEN [g2 EXCEPT !.phase = "ASSASSINATION"]
        ELSE IF g2.failed_quests >= WinsNeeded
        THEN [g2 EXCEPT !.phase = "GAME_END"]
        ELSE [g2 EXCEPT !.current_quest_idx = @ + 1, !.phase = "TEAM_BUILDING"]

_process_quest_result(g) ==
    LET current_quest == get_current_quest(g)
        result == current_quest.result
        g2 == [g EXCEPT !.players =
                 [p \in DOMAIN g.players |->
                    [g.players[p] EXCEPT !.team_vote_history =
                        Backfill(@, current_quest.quest_number, result)]]]
    IN  IF g2.succeeded_quests >= WinsNeeded
        THEN [g2 EXCEPT !.phase = "ASSASSINATION"]
        ELSE IF g2.failed_quests >= WinsNeeded
        THEN [g2 EXCEPT !.phase = "GAME_END"]
        ELSE [advance_leader([g2 EXCEPT !.current_quest_idx = @ + 1])
                EXCEPT !.phase = "TEAM_BUILDING"]

vote_on_quest(g, p, vote) ==
    IF g.phase # "QUEST" THEN [err |-> "phase", g |-> g]
    ELSE IF vote \notin {"SUCCESS", "FAIL"} THEN [err |-> "vote", g |-> g]
    ELSE IF GoodPlayerFails(vote, g.players[p]) THEN [err |-> "good_fail", g |-> g]
    ELSE IF NotOnTeam(p, get_current_quest(g)) THEN [err |-> "member", g |-> g]
    ELSE
        LET r == Quest_add_vote(get_current_quest(g), g.players, p, vote)
            g2 == [g EXCEPT !.quests[g.current_quest_idx + 1] = r.quest,
                            !.players = r.players]
        IN  IF r.err # "ok" THEN [err |-> r.err, g |-> g2]
            ELSE IF QuestVoteComplete(r.quest)
            THEN
                LET pr == Quest_process_result(r.quest, r.players)
                    g3 == [g2 EXCEPT !.quests[g.current_quest_idx + 1] = pr.quest,
                                     !.players = pr.players]
                    g4 == [g3 EXCEPT
                             !.succeeded_quests =
                                 @ + (IF pr.result = "SUCCESS" THEN 1 ELSE 0),
                             !.failed_quests =
                                 @ + (IF pr.result = "FAIL" THEN 1 ELSE 0)]
                IN  IF pr.err # "ok" THEN [err |-> pr.err, g |-> g3]
                    ELSE [err |-> "ok", g |-> _process_quest_result(g4)]
            ELSE [err |-> "ok", g |-> g2]

\* assassinate without the phase check
assassinate_anyPhase(g, target) ==
    IF g.assassin = NoPlayer THEN [err |-> "no_assassin", g |-> g]
    ELSE [err |-> "ok",
          g |-> [g EXCEPT !.assassinated_player = target, !.phase = "GAME_END"]]

assassinate(g, target) ==
    IF g.phase # "ASSASSINATION" THEN [err |-> "phase", g |-> g]
    ELSE IF g.assassin = NoPlayer THEN [err |-> "no_assassin", g |-> g]
    ELSE [err |-> "ok",
          g |-> [g EXCEPT !.assassinated_player = target, !.phase = "GAME_END"]]

is_game_over(g) == g.phase = "GAME_END"

\* get_winner without the failed quests
get_winner_ignoresQuests(g) ==
    IF ~is_game_over(g) THEN None
    ELSE IF g.assassinated_player # NoPlayer
            /\ g.players[g.assassinated_player].role = "MERLIN" THEN EVIL
    ELSE GOOD

\* get_winner with any assassination counted for evil
get_winner_anyTarget(g) ==
    IF ~is_game_over(g) THEN None
    ELSE IF g.failed_quests >= WinsNeeded THEN EVIL
    ELSE IF g.assassinated_player # NoPlayer THEN EVIL
    ELSE GOOD

get_winner(g) ==
    IF ~is_game_over(g) THEN None
    ELSE IF g.failed_quests >= WinsNeeded THEN EVIL
    ELSE IF g.assassinated_player # NoPlayer
            /\ g.players[g.assassinated_player].role = "MERLIN" THEN EVIL
    ELSE GOOD

---------------------------------------------------------------------------
(* game.py: construction *)

Repeat(x, k) == [i \in 1..k |-> x]

CountIn(s, S) == Cardinality({i \in DOMAIN s : s[i] \in S})

\* the servants fill the whole good quota, Merlin's seat included
DefaultRoleList_servantsFillQuota(n) ==
    LET roles2 == RequiredRoles \o Repeat("LOYAL_SERVANT", ROLE_CONFIGS[n].good)
        evil_roles_needed == ROLE_CONFIGS[n].evil - CountIn(roles2, Role \ GoodRoles)
    IN  roles2 \o Repeat("MINION", evil_roles_needed)

\* _assign_default_roles: the role list before the shuffle
DefaultRoleList(n) ==
    LET roles == RequiredRoles
        good_roles_needed == ROLE_CONFIGS[n].good - CountIn(roles, {"MERLIN", "PERCIVAL"})
        roles2 == roles \o Repeat("LOYAL_SERVANT", good_roles_needed)
        evil_roles_needed == ROLE_CONFIGS[n].evil - CountIn(roles2, Role \ GoodRoles)
    IN  roles2 \o Repeat("MINION", evil_roles_needed)

\* the orders of k items taken from a bag: left[r] items of r remain
RECURSIVE Arrangements(_, _)
Arrangements(left, k) ==
    IF k = 0 THEN {<<>>}
    ELSE UNION {{<<r>> \o s : s \in Arrangements([left EXCEPT ![r] = @ - 1], k - 1)} :
                    r \in {x \in DOMAIN left : left[x] > 0}}

\* the ways random.shuffle can leave a list: every order of its items
Shuffles(roles) ==
    Arrangements([r \in Range(roles) |->
                     Cardinality({i \in DOMAIN roles : roles[i] = r})],
                 Len(roles))

\* _assign_roles after the shuffle: zip(self.players, roles)
AssignedPlayers(n, roles) ==
    [i \in 0..(n - 1) |->
        IF i + 1 \in DOMAIN roles
        THEN Player_assign_role(NewPlayer, roles[i + 1]).player
        ELSE NewPlayer]

\* the assassin reference kept by _assign_roles: the last ASSASSIN of the zip
AssassinOf(n, roles) ==
    LET holders == {i \in 0..(n - 1) : i + 1 \in DOMAIN roles /\ roles[i + 1] = "ASSASSIN"}
    IN  IF holders = {} THEN NoPlayer
        ELSE CHOOSE i \in holders : \A j \in holders : j <= i

\* AvalonGame.__init__ with the shuffle and the leader draw resolved
InitGame(n, roles, leader) ==
    /\ player_count = n
    /\ players = AssignedPlayers(n, roles)
    /\ quests = _setup_quests(n)
    /\ current_quest_idx = 0
    /\ current_leader_idx = leader
    /\ phase = "SETUP"
    /\ failed_votes_count = 0
    /\ succeeded_quests = 0
    /\ failed_quests = 0
    /\ assassin = AssassinOf(n, roles)
    /\ assassinated_player = NoPlayer
    /\ call = [op |-> "init", err |-> "ok"]

---------------------------------------------------------------------------
(* actions: one per command of the engine, plus the driver's start *)

Commit(g) ==
    /\ player_count' = g.player_count
    /\ players' = g.players
    /\ quests' = g.quests
    /\ current_quest_idx' = g.current_quest_idx
    /\ current_leader_idx' = g.current_leader_idx
    /\ phase' = g.phase
    /\ failed_votes_count' = g.failed_votes_count
    /\ succeeded_quests' = g.succeeded_quests
    /\ failed_quests' = g.failed_quests
    /\ assassin' = g.assassin
    /\ assassinated_player' = g.assassinated_player

\* the driver moves a constructed game from SETUP to TEAM_BUILDING
StartGame ==
    /\ phase = "SETUP"
    /\ Commit([Game EXCEPT !.phase = "TEAM_BUILDING"])
    /\ call' = [op |-> "start", err |-> "ok"]

ProposeTeam(leader, team) ==
    LET r == propose_team(Game, leader, team)
    IN  /\ Commit(r.g)
        /\ call' = [op |-> "propose_team", err |-> r.err]

VoteForTeam(p, vote) ==
    LET r == vote_for_team(Game, p, vote)
    IN  /\ Commit(r.g)
        /\ call' = [op |-> "vote_for_team", err |-> r.err]

VoteOnQuest(p, vote) ==
    LET r == vote_on_quest(Game, p, vote)
    IN  /\ Commit(r.g)
        /\ call' = [op |-> "vote_on_quest", err |-> r.err]

Assassinate(target) ==
    LET r == assassinate(Game, target)
    IN  /\ Commit(r.g)
        /\ call' = [op |-> "assassinate", err |-> r.err]

\* the driver calls Quest.process_result on quest i itself
ProcessResult(i) ==
    LET r == Quest_process_result(quests[i], players)
    IN  /\ Commit([Game EXCEPT !.quests[i] = r.quest, !.players = r.players])
        /\ call' = [op |-> "process_result", err |-> r.err]

---------------------------------------------------------------------------
(* the driver: what it feeds the engine, and how far a run goes *)

\* largest player count of a run (the engine accepts MinPlayers..MaxPlayersAllowed)
MaxPlayers == 6

\* votes accepted in a run beyond one per voter of the first proposal and of
\* the first quest: what is spent on voting again and on the tally that follows
MaxExtraVotes == 1

PlayerIds == 0..(player_count - 1)

CurrentQuest == quests[current_quest_idx + 1]

\* the total length of the team vote histories of players 0..p
RECURSIVE TeamVotesUpTo(_)
TeamVotesUpTo(p) ==
    IF p < 0 THEN 0
    ELSE Len(players[p].team_vote_history) + TeamVotesUpTo(p - 1)

TeamVotesCast == TeamVotesUpTo(player_count - 1)

\* the total length of the quest vote histories of players 0..p
RECURSIVE QuestVotesUpTo(_)
QuestVotesUpTo(p) ==
    IF p < 0 THEN 0
    ELSE Len(players[p].quest_vote_history) + QuestVotesUpTo(p - 1)

QuestVotesCast == QuestVotesUpTo(player_count - 1)

\* the rejected proposals of quests 1..i
RECURSIVE RejectedUpTo(_)
RejectedUpTo(i) ==
    IF i < 1 THEN 0 ELSE quests[i].team_vote_counter + RejectedUpTo(i - 1)

RejectedProposals == RejectedUpTo(Len(quests))

\* proposals made so far: the rejected ones, one approved one per quest played,
\* and the one being voted on
ProposalsMade ==
    RejectedProposals + current_quest_idx
    + (IF phase \in {"TEAM_VOTING", "QUEST"} \/ CurrentQuest.result # "NOT_STARTED"
       THEN 1 ELSE 0)

\* the voters of the first proposal of the run, and of the first quest
FirstVotes ==
    (IF ProposalsMade = 0 THEN 0
     ELSE IF ProposalsMade = 1 /\ phase = "TEAM_VOTING"
     THEN Cardinality(DOMAIN CurrentQuest.pre_quest_votes)
     ELSE player_count)
    + (IF current_quest_idx > 0 \/ CurrentQuest.result # "NOT_STARTED"
       THEN quests[1].required_team_size
       ELSE IF phase = "QUEST"
       THEN Cardinality(DOMAIN CurrentQuest.in_quest_votes)
       ELSE 0)

ExtraVotes == TeamVotesCast + QuestVotesCast - FirstVotes

\* an extra vote is left to cast
ExtraLeft == ExtraVotes < MaxExtraVotes

\* size consecutive players from start on
TeamFrom(start, size) == [i \in 1..size |-> (start + i - 1) % player_count]

\* where the teams the driver proposes start, counted from the leader
TeamOffsets == {0, 1}

\* well-formed proposals: the leader's block or its neighbour's
GoodTeams ==
    {TeamFrom(current_leader_idx + o, CurrentQuest.required_team_size) :
        o \in TeamOffsets}

\* malformed proposals: one member too many, and a repeated member
BadTeams ==
    {TeamFrom(current_leader_idx, CurrentQuest.required_team_size + 1),
     [i \in 1..CurrentQuest.required_team_size |-> current_leader_idx]}

\* The tally a vote would leave.
TallyAfter(p, v) == Put(CurrentQuest.pre_quest_votes, p, v)

\* The votes the table casts: the players up to some seat approve and the
\* players after it reject, so that every split of the table occurs.
SeatSplit(tally) ==
    \A a \in DOMAIN tally :
        tally[a] = "APPROVE" =>
            \A r \in DOMAIN tally : tally[r] = "REJECT" => a < r

\* agents/base.py vote_on_quest: a good agent returns SUCCESS, an evil one either
QuestVotesOf(p) ==
    IF players[p].team = EVIL THEN {"SUCCESS", "FAIL"} ELSE {"SUCCESS"}

\* The players vote in any order and may vote again.  The first vote of each
\* voter on the first proposal and on the first quest is free; every other vote
\* is one of the extra votes.
NextAccepted ==
    \/ StartGame
    \/ /\ phase = "TEAM_BUILDING"
       /\ ProposalsMade = 0 \/ ExtraLeft
       /\ \E t \in GoodTeams : ProposeTeam(current_leader_idx, t)
    \/ /\ phase = "TEAM_VOTING"
       /\ ProposalsMade = 1
       /\ \E p \in PlayerIds \ DOMAIN CurrentQuest.pre_quest_votes :
          \E v \in {"APPROVE", "REJECT"} :
             SeatSplit(TallyAfter(p, v)) /\ VoteForTeam(p, v)
    \/ /\ phase = "TEAM_VOTING"
       /\ ExtraLeft
       /\ \E p \in (IF ProposalsMade = 1 THEN DOMAIN CurrentQuest.pre_quest_votes
                    ELSE PlayerIds) :
          \E v \in {"APPROVE", "REJECT"} :
             SeatSplit(TallyAfter(p, v)) /\ VoteForTeam(p, v)
    \/ /\ phase = "QUEST"
       /\ current_quest_idx = 0
       /\ \E p \in Range(CurrentQuest.team) \ DOMAIN CurrentQuest.in_quest_votes :
          \E v \in QuestVotesOf(p) : VoteOnQuest(p, v)
    \/ /\ phase = "QUEST"
       /\ ExtraLeft
       /\ \E p \in DOMAIN CurrentQuest.in_quest_votes :
          \E v \in QuestVotesOf(p) : VoteOnQuest(p, v)

\* the first seat and the last one, from which the first rotation wraps
FirstLeaders(n) == {0, n - 1}

Init ==
    \E n \in MinPlayers..MaxPlayers :
        \E l \in FirstLeaders(n) : InitGame(n, DefaultRoleList(n), l)

\* one proposal cycle under every vote, in every order
Spec == Init /\ [][NextAccepted]_vars

---------------------------------------------------------------------------
(* whole games under the engine calls of the repository's driver loop       *)
(* (examples/simple_game.py): the leader proposes, the players vote in list *)
(* order, the team members vote in team order, then a target is picked.     *)
(* The loop's own quest.process_result() after a full quest is not issued   *)
(* in these runs.                                                           *)

\* rejected proposals in a run
MaxRejections == 5

\* smallest player count with a quest that needs two fail votes
TwoFailPlayers == 7

\* for player in game.players: the first player without a vote in the tally
NextTeamVoter ==
    {p \in PlayerIds :
        /\ p \notin DOMAIN CurrentQuest.pre_quest_votes
        /\ \A q \in 0..(p - 1) : q \in DOMAIN CurrentQuest.pre_quest_votes}

\* for player in team: the first team member without a quest vote
NextQuestVoter ==
    {CurrentQuest.team[i] : i \in
        {i \in DOMAIN CurrentQuest.team :
            /\ CurrentQuest.team[i] \notin DOMAIN CurrentQuest.in_quest_votes
            /\ \A j \in 1..(i - 1) :
                  CurrentQuest.team[j] \in DOMAIN CurrentQuest.in_quest_votes}}

\* the table votes as one: a vote repeats the votes already in the tally
AgreesWithTally(v) ==
    \A q \in DOMAIN CurrentQuest.pre_quest_votes : CurrentQuest.pre_quest_votes[q] = v

\* if game.phase == GamePhase.TEAM_BUILDING: the leader proposes its block
DriverPropose ==
    /\ phase = "TEAM_BUILDING"
    /\ ProposeTeam(current_leader_idx,
                   TeamFrom(current_leader_idx, CurrentQuest.required_team_size))

\* elif game.phase == GamePhase.TEAM_VOTING; the table rejects only while
\* mayReject holds
DriverTeamVote(mayReject) ==
    /\ phase = "TEAM_VOTING"
    /\ \E p \in NextTeamVoter, v \in {"APPROVE", "REJECT"} :
          /\ AgreesWithTally(v)
          /\ v = "REJECT" => mayReject
          /\ VoteForTeam(p, v)

\* elif game.phase == GamePhase.QUEST
DriverQuestVote ==
    /\ phase = "QUEST"
    /\ \E p \in NextQuestVoter : \E v \in QuestVotesOf(p) : VoteOnQuest(p, v)

\* elif game.phase == GamePhase.ASSASSINATION
DriverAssassinate ==
    /\ phase = "ASSASSINATION"
    /\ assassin # NoPlayer
    /\ \E t \in PlayerIds : Assassinate(t)

NextDriver ==
    \/ StartGame
    \/ DriverPropose
    \/ DriverTeamVote(RejectedProposals < MaxRejections)
    \/ DriverQuestVote
    \/ DriverAssassinate

InitFullGame ==
    \E n \in {MinPlayers, TwoFailPlayers} : InitGame(n, DefaultRoleList(n), 0)

SpecFullGame == InitFullGame /\ [][NextDriver]_vars

---------------------------------------------------------------------------
(* whole games in which the calls the engine refuses are issued as well *)

\* a custom role list without ASSASSIN (custom_roles of AvalonGame.__init__)
NoAssassinRoles ==
    <<"MERLIN", "MORGANA", "LOYAL_SERVANT", "LOYAL_SERVANT", "MINION">>

\* a player other than the leader
NotLeader == (current_leader_idx + 1) % player_count

LeaderTeam == TeamFrom(current_leader_idx, CurrentQuest.required_team_size)

\* the calls the engine has to refuse in the current state
NextRefused ==
    \/ ProposeTeam(NotLeader, LeaderTeam)
    \/ phase = "TEAM_BUILDING" /\ \E t \in BadTeams : ProposeTeam(current_leader_idx, t)
    \/ phase # "TEAM_BUILDING" /\ ProposeTeam(current_leader_idx, LeaderTeam)
    \/ phase # "TEAM_VOTING" /\ VoteForTeam(current_leader_idx, "APPROVE")
    \/ VoteForTeam(current_leader_idx, "SUCCESS")
    \/ phase # "QUEST" /\ VoteOnQuest(current_leader_idx, "SUCCESS")
    \/ /\ phase = "QUEST"
       /\ \E p \in PlayerIds \ Range(CurrentQuest.team) :
          \E v \in {"SUCCESS", "FAIL"} : VoteOnQuest(p, v)
    \/ /\ phase = "QUEST"
       /\ \E p \in Range(CurrentQuest.team) :
             players[p].team = GOOD /\ VoteOnQuest(p, "FAIL")
    \/ VoteOnQuest(current_leader_idx, "REJECT")
    \/ phase # "ASSASSINATION" /\ Assassinate(current_leader_idx)
    \/ phase = "ASSASSINATION" /\ assassin = NoPlayer /\ Assassinate(current_leader_idx)
    \/ \E i \in DOMAIN quests : ~AllTeamVoted(quests[i]) /\ ProcessResult(i)

InitRefusals ==
    \/ \E n \in {MinPlayers, TwoFailPlayers} : InitGame(n, DefaultRoleList(n), 0)
    \/ InitGame(MinPlayers, NoAssassinRoles, 0)

\* the table rejects proposals for the first quest only
NextRefusals ==
    \/ StartGame
    \/ DriverPropose
    \/ DriverTeamVote(current_quest_idx = 0)
    \/ DriverQuestVote
    \/ DriverAssassinate
    \/ NextRefused

SpecRefusals == InitRefusals /\ [][NextRefusals]_vars

---------------------------------------------------------------------------
(* the phase machine *)

\* the phase edges and the call that takes each
PhaseEdges ==
    {<<"start", "SETUP", "TEAM_BUILDING">>,
     <<"propose_team", "TEAM_BUILDING", "TEAM_VOTING">>,
     <<"vote_for_team", "TEAM_VOTING", "QUEST">>,
     <<"vote_for_team", "TEAM_VOTING", "TEAM_BUILDING">>,
     <<"vote_for_team", "TEAM_VOTING", "GAME_END">>,
     <<"vote_on_quest", "QUEST", "TEAM_BUILDING">>,
     <<"vote_on_quest", "QUEST", "ASSASSINATION">>,
     <<"vote_on_quest", "QUEST", "GAME_END">>,
     <<"assassinate", "ASSASSINATION", "GAME_END">>}

\* C1: a step changes the phase only along TEAM_BUILDING -> TEAM_VOTING (by
\* propose_team), TEAM_VOTING -> QUEST, TEAM_BUILDING or GAME_END (by
\* vote_for_team), QUEST -> TEAM_BUILDING, ASSASSINATION or GAME_END (by
\* vote_on_quest) and ASSASSINATION -> GAME_END (by assassinate), after the
\* driver's SETUP -> TEAM_BUILDING; no call leaves GAME_END and none returns
\* to SETUP.
C1_LegalPhaseEdges ==
    [][phase' # phase => <<call'.op, phase, phase'>> \in PhaseEdges]_vars

\* a game that was rejected once, played its quests and ended by assassination,
\* with a call made after the end
C1_Witness ==
    /\ phase = "GAME_END"
    /\ assassinated_player # NoPlayer
    /\ quests[1].team_vote_counter > 0
    /\ call.err = "phase"

\* C2: propose_team is refused in every phase other than TEAM_BUILDING,
\* vote_for_team in every phase other than TEAM_VOTING, vote_on_quest in every
\* phase other than QUEST and assassinate in every phase other than
\* ASSASSINATION.
C2_WrongPhaseRefused ==
    [][/\ call'.op = "propose_team" /\ phase # "TEAM_BUILDING" => call'.err # "ok"
       /\ call'.op = "vote_for_team" /\ phase # "TEAM_VOTING" => call'.err # "ok"
       /\ call'.op = "vote_on_quest" /\ phase # "QUEST" => call'.err # "ok"
       /\ call'.op = "assassinate" /\ phase # "ASSASSINATION" => call'.err # "ok"]_vars

\* a team vote that arrived after the vote that triggered tabulation
C2_Witness ==
    /\ call = [op |-> "vote_for_team", err |-> "phase"]
    /\ phase = "QUEST"
    /\ DOMAIN CurrentQuest.pre_quest_votes = PlayerIds

\* C3: a refused call leaves the whole game state as it was: players, quests,
\* indices, counters, phase, assassin and target.
C3_RefusedCallChangesNothing ==
    [][call'.err # "ok" => UNCHANGED gvars]_vars

\* a quest vote by a non-member refused while the quest votes are coming in
C3_Witness ==
    /\ call = [op |-> "vote_on_quest", err |-> "member"]
    /\ CurrentQuest.in_quest_votes # EmptyDict

\* a malformed team refused in TEAM_BUILDING after an earlier rejection
C3_WitnessTeam ==
    /\ call = [op |-> "propose_team", err |-> "team"]
    /\ CurrentQuest.team # <<>>

---------------------------------------------------------------------------
(* team votes *)

\* the approvals in a tally
Approvals(tally) == Cardinality({p \in DOMAIN tally : tally[p] = "APPROVE"})

\* the step records the vote that completes the tally of the current proposal
Tabulates ==
    /\ phase = "TEAM_VOTING"
    /\ DOMAIN CurrentQuest'.pre_quest_votes = PlayerIds

\* the completed tally has a strict majority of approvals
Approves == Approvals(CurrentQuest'.pre_quest_votes) >= (player_count \div 2) + 1

\* C4: in TEAM_VOTING some player's vote is always missing; a step that leaves
\* a vote missing changes no phase, index or counter; the phase changes exactly
\* in the step after which every player has a vote.
C4_TabulationAtLastVote ==
    [][phase = "TEAM_VOTING" =>
          /\ DOMAIN CurrentQuest.pre_quest_votes # PlayerIds
          /\ phase' # "TEAM_VOTING" <=> Tabulates
          /\ ~Tabulates =>
                /\ UNCHANGED <<failed_votes_count, current_leader_idx,
                               current_quest_idx, succeeded_quests, failed_quests>>
                /\ CurrentQuest'.team_vote_counter = CurrentQuest.team_vote_counter]_vars

\* as many calls as players were accepted, one of them a second vote of the
\* same player, and the table is still voting
C4_Witness ==
    /\ phase = "TEAM_VOTING"
    /\ TeamVotesCast = player_count
    /\ Cardinality(DOMAIN CurrentQuest.pre_quest_votes) = player_count - 1

\* C5: a completed tally approves the team exactly when the approvals are more
\* than half the players; on approval failed_votes_count is 0, the phase is
\* QUEST, and the leader and the quest index stay.
C5_StrictMajorityApproves ==
    [][Tabulates =>
          /\ phase' = "QUEST" <=> Approves
          /\ Approves =>
                /\ failed_votes_count' = 0
                /\ UNCHANGED <<current_leader_idx, current_quest_idx>>]_vars

\* six players, three approvals: the proposal was rejected
C5_Witness ==
    /\ player_count = 6
    /\ call = [op |-> "vote_for_team", err |-> "ok"]
    /\ phase = "TEAM_BUILDING"
    /\ Approvals(quests[1].pre_quest_votes) = 3
    /\ quests[1].team_vote_counter = 1

\* six players, four approvals: the proposal was approved
C5_WitnessApproved ==
    /\ player_count = 6
    /\ phase = "QUEST"
    /\ Approvals(quests[1].pre_quest_votes) = 4

\* the step completes a tally without a strict majority of approvals
Rejects == Tabulates /\ ~Approves

\* C6: a rejection adds one to failed_votes_count and to the quest's
\* team_vote_counter, moves the lead to the next seat (wrapping), leaves the
\* quest index and both quest counters alone, and returns to TEAM_BUILDING
\* while failed_votes_count is below 5.
C6_RejectionRotatesLeader ==
    [][Rejects =>
          /\ failed_votes_count' = failed_votes_count + 1
          /\ CurrentQuest'.team_vote_counter = CurrentQuest.team_vote_counter + 1
          /\ current_leader_idx' = (current_leader_idx + 1) % player_count
          /\ UNCHANGED <<current_quest_idx, succeeded_quests, failed_quests>>
          /\ failed_votes_count' < 5 => phase' = "TEAM_BUILDING"]_vars

\* a rejection under the last seat's lead, after an earlier quest: the lead
\* wrapped to seat 0
C6_Witness ==
    /\ call = [op |-> "vote_for_team", err |-> "ok"]
    /\ phase = "TEAM_BUILDING"
    /\ current_leader_idx = 0
    /\ CurrentQuest.leader = player_count - 1
    /\ failed_votes_count = 2
    /\ current_quest_idx = 1

\* C7: the fifth rejection in a row for a quest slot ends the game in that
\* step, with no quest vote and no result for the slot and no assassination;
\* from a fresh game every quest is then NOT_STARTED and both quest counters
\* are 0; a rejection that is not the fifth in a row returns to TEAM_BUILDING.
C7_FifthRejectionEndsGame ==
    [][Rejects =>
          IF CurrentQuest.team_vote_counter = 4
          THEN /\ phase' = "GAME_END"
               /\ CurrentQuest'.result = "NOT_STARTED"
               /\ CurrentQuest'.in_quest_votes = EmptyDict
               /\ assassinated_player' = NoPlayer
               /\ current_quest_idx = 0 =>
                     /\ \A i \in DOMAIN quests : quests'[i].result = "NOT_STARTED"
                     /\ succeeded_quests' = 0 /\ failed_quests' = 0
          ELSE phase' = "TEAM_BUILDING"]_vars

\* a fresh game ended by five rejections
C7_Witness ==
    /\ phase = "GAME_END"
    /\ quests[1].team_vote_counter = 5
    /\ current_quest_idx = 0

\* five rejections in a row for the third quest slot
C7_WitnessLater ==
    /\ phase = "GAME_END"
    /\ quests[3].team_vote_counter = 5

\* the game ended on the attrition path
EndedByAttrition == phase = "GAME_END" /\ failed_votes_count >= MAX_FAILED_VOTES

\* C8: whenever the game reached GAME_END through the attrition path
\* (failed_votes_count >= 5), get_winner() is EVIL.
C8_AttritionWinnerIsEvil == EndedByAttrition => get_winner(Game) = EVIL

\* a game ended by five rejections in a row, with fewer than three failed
\* quests and nobody assassinated
C8_Witness ==
    /\ EndedByAttrition
    /\ failed_quests < WinsNeeded
    /\ assassinated_player = NoPlayer

---------------------------------------------------------------------------
(* quest votes *)

\* C9: every key of a quest's in_quest_votes is a member of the quest's team,
\* and no GOOD player has a FAIL vote in a quest tally or in its own
\* quest_vote_history.
C9_QuestVotesByTeamNoGoodFail ==
    /\ \A i \in DOMAIN quests :
          /\ DOMAIN quests[i].in_quest_votes \subseteq Range(quests[i].team)
          /\ \A p \in DOMAIN quests[i].in_quest_votes :
                players[p].team = GOOD => quests[i].in_quest_votes[p] # "FAIL"
    /\ \A p \in PlayerIds :
          players[p].team = GOOD =>
             \A k \in DOMAIN players[p].quest_vote_history :
                players[p].quest_vote_history[k].vote # "FAIL"

\* a FAIL vote of a GOOD team member was refused while an EVIL member's FAIL
\* is in the tally
C9_Witness ==
    /\ call = [op |-> "vote_on_quest", err |-> "good_fail"]
    /\ \E p \in DOMAIN CurrentQuest.in_quest_votes :
          CurrentQuest.in_quest_votes[p] = "FAIL"

\* the FAIL votes in a quest's tally
FailVotes(q) == Cardinality({p \in DOMAIN q.in_quest_votes : q.in_quest_votes[p] = "FAIL"})

\* C10: a quest's result is set only in a step after which all
\* required_team_size votes are in; it is FAIL exactly when the FAIL votes are
\* at least fails_required; the step adds one to exactly one of
\* succeeded_quests and failed_quests, which change in no other step; a
\* process_result call on a quest with votes missing is refused.
C10_QuestResultFromAllVotes ==
    [][/\ \A i \in DOMAIN quests :
             quests'[i].result # quests[i].result =>
                /\ Cardinality(DOMAIN quests'[i].in_quest_votes)
                      = quests'[i].required_team_size
                /\ quests'[i].result =
                      (IF FailVotes(quests'[i]) >= quests'[i].fails_required
                       THEN "FAIL" ELSE "SUCCESS")
                /\ IF quests'[i].result = "SUCCESS"
                   THEN /\ succeeded_quests' = succeeded_quests + 1
                        /\ failed_quests' = failed_quests
                   ELSE /\ failed_quests' = failed_quests + 1
                        /\ succeeded_quests' = succeeded_quests
       /\ (\A i \in DOMAIN quests : quests'[i].result = quests[i].result) =>
             UNCHANGED <<succeeded_quests, failed_quests>>
       /\ call'.op = "process_result" =>
             call'.err # "ok" /\ UNCHANGED quests]_vars

\* a quest that needs two FAIL votes succeeded with one
C10_Witness ==
    \E i \in DOMAIN quests :
        /\ quests[i].fails_required = 2
        /\ quests[i].result = "SUCCESS"
        /\ FailVotes(quests[i]) = 1

\* a quest that needs two FAIL votes failed with exactly two
C10_WitnessFail ==
    \E i \in DOMAIN quests :
        /\ quests[i].fails_required = 2
        /\ quests[i].result = "FAIL"
        /\ FailVotes(quests[i]) = 2

---------------------------------------------------------------------------
(* the end of a quest and the end of the game *)

\* the step records the quest vote that completes the current quest
QuestCompletes ==
    /\ phase = "QUEST"
    /\ quests'[current_quest_idx + 1].result # quests[current_quest_idx + 1].result

\* C11: when a quest completes with succeeded_quests at 3 the phase becomes
\* ASSASSINATION; otherwise with failed_quests at 3 the phase becomes GAME_END
\* and get_winner() is EVIL; in both cases the quest index and the leader index
\* stay.
C11_ThirdResultEndsQuests ==
    [][QuestCompletes =>
          /\ succeeded_quests' = 3 =>
                /\ phase' = "ASSASSINATION"
                /\ UNCHANGED <<current_quest_idx, current_leader_idx>>
          /\ succeeded_quests' # 3 /\ failed_quests' = 3 =>
                /\ phase' = "GAME_END"
                /\ get_winner(Game)' = EVIL
                /\ UNCHANGED <<current_quest_idx, current_leader_idx>>]_vars

\* the third failed quest ended the game, with two quests succeeded before
C11_Witness ==
    /\ call = [op |-> "vote_on_quest", err |-> "ok"]
    /\ phase = "GAME_END"
    /\ failed_quests = 3
    /\ succeeded_quests = 2

\* the third succeeded quest led to ASSASSINATION, with two quests failed before
C11_WitnessAssassination ==
    /\ call = [op |-> "vote_on_quest", err |-> "ok"]
    /\ phase = "ASSASSINATION"
    /\ succeeded_quests = 3
    /\ failed_quests = 2

\* C12: when a quest completes and neither counter has reached 3, the quest
\* index grows by one, the lead moves to the next seat (wrapping), the phase
\* becomes TEAM_BUILDING and failed_votes_count is 0 before and after.
C12_NextQuestRotatesLeader ==
    [][QuestCompletes /\ succeeded_quests' < 3 /\ failed_quests' < 3 =>
          /\ current_quest_idx' = current_quest_idx + 1
          /\ current_leader_idx' = (current_leader_idx + 1) % player_count
          /\ phase' = "TEAM_BUILDING"
          /\ failed_votes_count = 0
          /\ failed_votes_count' = 0]_vars

\* a quest led from the last seat completed after rejected proposals: the
\* lead wrapped to seat 0
C12_Witness ==
    /\ call = [op |-> "vote_on_quest", err |-> "ok"]
    /\ phase = "TEAM_BUILDING"
    /\ current_leader_idx = 0
    /\ current_quest_idx > 0
    /\ quests[current_quest_idx].leader = player_count - 1
    /\ quests[current_quest_idx].team_vote_counter > 0

\* C13: in ASSASSINATION with an assassin in play, assassinate(target) is
\* accepted for every target, records it as assassinated_player and ends the
\* game; get_winner() is then EVIL if the target holds MERLIN and GOOD for any
\* other target.
C13_AssassinationDecidesWinner ==
    phase = "ASSASSINATION" /\ assassin # NoPlayer =>
        \A target \in PlayerIds :
            LET r == assassinate(Game, target)
            IN  /\ r.err = "ok"
                /\ r.g.assassinated_player = target
                /\ r.g.phase = "GAME_END"
                /\ get_winner(r.g) =
                      (IF players[target].role = "MERLIN" THEN EVIL ELSE GOOD)

\* the assassin named Merlin and evil won
C13_Witness ==
    /\ call = [op |-> "assassinate", err |-> "ok"]
    /\ phase = "GAME_END"
    /\ players[assassinated_player].role = "MERLIN"
    /\ get_winner(Game) = EVIL

\* the assassin named a loyal servant and good won
C13_WitnessMiss ==
    /\ call = [op |-> "assassinate", err |-> "ok"]
    /\ phase = "GAME_END"
    /\ players[assassinated_player].role = "LOYAL_SERVANT"
    /\ get_winner(Game) = GOOD

\* C14: in GAME_END failed_quests is 3, or failed_votes_count is at least 5,
\* or succeeded_quests is 3 and a player was assassinated; assassinated_player
\* is set only by a step taken in ASSASSINATION with succeeded_quests at 3,
\* and is set only in GAME_END.
C14_WaysToGameEnd ==
    /\ [](phase = "GAME_END" =>
             \/ failed_quests = 3
             \/ failed_votes_count >= 5
             \/ succeeded_quests = 3 /\ assassinated_player # NoPlayer)
    /\ [](assassinated_player # NoPlayer =>
             phase = "GAME_END" /\ succeeded_quests = 3)
    /\ [][assassinated_player' # assassinated_player =>
             phase = "ASSASSINATION" /\ succeeded_quests = 3]_vars

\* a game ended by assassination after three succeeded quests, with a call
\* refused after the end
C14_Witness ==
    /\ phase = "GAME_END"
    /\ succeeded_quests = 3
    /\ assassinated_player # NoPlayer
    /\ call = [op |-> "assassinate", err |-> "phase"]

---------------------------------------------------------------------------
(* a game without an assassin: custom_roles that omit ASSASSIN *)

InitNoAssassin == InitGame(MinPlayers, NoAssassinRoles, 0)

\* every command, with every player and vote, once good has three successes
CommandsInAssassination ==
    /\ phase = "ASSASSINATION"
    /\ \/ \E l \in PlayerIds : ProposeTeam(l, TeamFrom(l, CurrentQuest.required_team_size))
       \/ \E p \in PlayerIds : \E v \in VoteType : VoteForTeam(p, v)
       \/ \E p \in PlayerIds : \E v \in VoteType : VoteOnQuest(p, v)
       \/ \E t \in PlayerIds : Assassinate(t)

NextNoAssassin ==
    \/ StartGame
    \/ DriverPropose
    \/ DriverTeamVote(current_quest_idx = 0)
    \/ DriverQuestVote
    \/ CommandsInAssassination

\* while not game.is_game_over(): in ASSASSINATION the driver keeps issuing
\* commands
SpecNoAssassin ==
    InitNoAssassin /\ [][NextNoAssassin]_vars /\ WF_vars(CommandsInAssassination)

\* C15: a game built from a custom role map without ASSASSIN does not stay in
\* ASSASSINATION once good has three successes: the commands lead from there
\* to GAME_END.
C15_NoAssassinGameEnds ==
    (phase = "ASSASSINATION" /\ assassin = NoPlayer) ~> phase = "GAME_END"

\* good has three successes, no assassin is in play, and assassinate was refused
C15_Witness ==
    /\ phase = "ASSASSINATION"
    /\ assassin = NoPlayer
    /\ succeeded_quests = 3
    /\ call = [op |-> "assassinate", err |-> "no_assassin"]

\* what the engine does instead: in ASSASSINATION without an assassin every
\* command leaves the game as it is
NoAssassinGameStaysInAssassination ==
    [][phase = "ASSASSINATION" /\ assassin = NoPlayer => UNCHANGED gvars]_vars

---------------------------------------------------------------------------
(* game.py: get_visible_roles *)

\* dict.update
Update(d, e) ==
    [k \in DOMAIN d \cup DOMAIN e |-> IF k \in DOMAIN e THEN e[k] ELSE d[k]]

\* Merlin hides only Mordred
SeenByMerlin_all(pl) == pl.team = EVIL

\* p.team == Team.EVIL and p.role != Role.MORDRED
SeenByMerlin(pl) == pl.team = EVIL /\ pl.role # "MORDRED"

\* Percival sees Merlin alone
SeenByPercival_merlinOnly(pl) == pl.role = "MERLIN"

\* p.role in [Role.MERLIN, Role.MORGANA]
SeenByPercival(pl) == pl.role \in {"MERLIN", "MORGANA"}

\* Oberon sees the other evil players
SeesOtherEvil_oberonToo(pl) == pl.team = EVIL

\* player.team == Team.EVIL and player.role != Role.OBERON
SeesOtherEvil(pl) == pl.team = EVIL /\ pl.role # "OBERON"

\* Oberon is shown to the other evil players
SeenByEvil_oberonToo(pl) == pl.team = EVIL

\* p.team == Team.EVIL and p.role != Role.OBERON
SeenByEvil(pl) == pl.team = EVIL /\ pl.role # "OBERON"

get_visible_roles(g, player) ==
    LET me == g.players[player]
        visible_roles == [p \in {player} |-> me.role]
        others(Seen(_)) == {p \in DOMAIN g.players : Seen(g.players[p])}
    IN  IF me.role = "MERLIN"
        THEN Update(visible_roles, [p \in others(SeenByMerlin) |-> "MINION"])
        ELSE IF me.role = "PERCIVAL"
        THEN Update(visible_roles, [p \in others(SeenByPercival) |-> "MERLIN"])
        ELSE IF SeesOtherEvil(me)
        THEN Update(visible_roles,
                    [p \in others(SeenByEvil) \ {player} |-> g.players[p].role])
        ELSE visible_roles

\* the caller asks what a player sees
GetVisibleRoles(p) ==
    /\ UNCHANGED gvars
    /\ call' = [op |-> "get_visible_roles", err |-> "ok", player |-> p,
                ret |-> get_visible_roles(Game, p)]

\* the role lists a custom role map can leave after the shuffle: any seating
\* with the quota of good and of evil roles (_validate_custom_roles)
RoleSeatings(n) ==
    {roles \in [1..n -> Role] :
        /\ CountIn(roles, GoodRoles) = ROLE_CONFIGS[n].good
        /\ CountIn(roles, EvilRoles) = ROLE_CONFIGS[n].evil}

\* the same with the good roles seated first
RoleSeatingsGoodFirst(n) ==
    {good \o evil : good \in [1..ROLE_CONFIGS[n].good -> GoodRoles],
                    evil \in [1..ROLE_CONFIGS[n].evil -> EvilRoles]}

InitRoles ==
    \/ \E roles \in RoleSeatings(MinPlayers) : InitGame(MinPlayers, roles, 0)
    \/ \E roles \in RoleSeatingsGoodFirst(TwoFailPlayers) :
          InitGame(TwoFailPlayers, roles, 0)

NextRoles == \E p \in PlayerIds : GetVisibleRoles(p)

\* every role seating, and every player's view of it
SpecRoles == InitRoles /\ [][NextRoles]_vars

\* the game with player q holding another role
WithRole(g, q, role) ==
    [g EXCEPT !.players[q].role = role, !.players[q].team = TeamOfRole(role)]

\* the last call returned what player p sees
Viewed == call.op = "get_visible_roles"

\* C16: Merlin's map is Merlin as MERLIN plus every EVIL player not holding
\* MORDRED as MINION, whatever that player's role; nobody else appears.
C16_MerlinSeesEvilButMordred ==
    Viewed /\ players[call.player].role = "MERLIN" =>
        LET seen == {q \in PlayerIds :
                        players[q].team = EVIL /\ players[q].role # "MORDRED"}
        IN  /\ DOMAIN call.ret = {call.player} \cup seen
            /\ call.ret[call.player] = "MERLIN"
            /\ \A q \in seen : call.ret[q] = "MINION"

\* Merlin's view with Oberon, Morgana and Mordred in play: Oberon and Morgana
\* are shown as MINION, Mordred is absent
C16_Witness ==
    /\ Viewed
    /\ players[call.player].role = "MERLIN"
    /\ \E o, m, d \in PlayerIds :
          /\ players[o].role = "OBERON" /\ players[m].role = "MORGANA"
          /\ players[d].role = "MORDRED"
          /\ o \in DOMAIN call.ret /\ call.ret[o] = "MINION"
          /\ m \in DOMAIN call.ret /\ call.ret[m] = "MINION"
          /\ d \notin DOMAIN call.ret

\* C17: Percival's map is Percival's own role plus every MERLIN and MORGANA
\* holder as MERLIN; swapping the roles of a Merlin and a Morgana leaves the
\* map as it is.
C17_PercivalCannotTellMerlin ==
    Viewed /\ players[call.player].role = "PERCIVAL" =>
        LET seen == {q \in PlayerIds : players[q].role \in {"MERLIN", "MORGANA"}}
        IN  /\ DOMAIN call.ret = {call.player} \cup seen
            /\ call.ret[call.player] = "PERCIVAL"
            /\ \A q \in seen : call.ret[q] = "MERLIN"
            /\ \A a, b \in PlayerIds :
                  players[a].role = "MERLIN" /\ players[b].role = "MORGANA" =>
                     get_visible_roles(
                        WithRole(WithRole(Game, a, "MORGANA"), b, "MERLIN"),
                        call.player) = call.ret

\* Percival's view of a game with one Merlin and one Morgana
C17_Witness ==
    /\ Viewed
    /\ players[call.player].role = "PERCIVAL"
    /\ Cardinality({q \in PlayerIds : players[q].role = "MERLIN"}) = 1
    /\ Cardinality({q \in PlayerIds : players[q].role = "MORGANA"}) = 1
    /\ Cardinality(DOMAIN call.ret) = 3

\* C18: the map of an EVIL player other than Oberon is the player's own role
\* plus every other EVIL player not holding OBERON, each with its true role,
\* and no GOOD player; Oberon is in no other evil player's map.
C18_EvilSeeEvilButOberon ==
    Viewed /\ players[call.player].team = EVIL =>
        /\ players[call.player].role # "OBERON" =>
              /\ DOMAIN call.ret =
                    {call.player} \cup
                    {q \in PlayerIds :
                        players[q].team = EVIL /\ players[q].role # "OBERON"}
              /\ \A q \in DOMAIN call.ret : call.ret[q] = players[q].role
        /\ \A q \in PlayerIds \ {call.player} :
              players[q].role = "OBERON" => q \notin DOMAIN call.ret

\* an assassin's view of a game with Mordred and Oberon: Mordred is shown by
\* role, Oberon is absent
C18_Witness ==
    /\ Viewed
    /\ players[call.player].role = "ASSASSIN"
    /\ \E d, o \in PlayerIds :
          /\ players[d].role = "MORDRED" /\ players[o].role = "OBERON"
          /\ d \in DOMAIN call.ret /\ call.ret[d] = "MORDRED"
          /\ o \notin DOMAIN call.ret

\* C19: every map holds its player with the player's true role; the map of a
\* LOYAL_SERVANT or an OBERON holds nothing else and stays the same when any
\* other player's role is replaced.
C19_OwnRoleAlwaysSeen ==
    Viewed =>
        /\ call.player \in DOMAIN call.ret
        /\ call.ret[call.player] = players[call.player].role
        /\ players[call.player].role \in {"LOYAL_SERVANT", "OBERON"} =>
              /\ DOMAIN call.ret = {call.player}
              /\ \A q \in PlayerIds \ {call.player} : \A role \in Role :
                    get_visible_roles(WithRole(Game, q, role), call.player)
                       = call.ret

\* Oberon's view of a game with two more evil players
C19_Witness ==
    /\ Viewed
    /\ players[call.player].role = "OBERON"
    /\ Cardinality({q \in PlayerIds : players[q].team = EVIL}) = 3
    /\ call.ret = [q \in {call.player} |-> "OBERON"]

---------------------------------------------------------------------------
(* game.py: get_game_state *)

\* Enum.value of the members of enums.py
EnumValues ==
    [MERLIN |-> "Merlin", PERCIVAL |-> "Percival",
     LOYAL_SERVANT |-> "Loyal Servant of Arthur",
     ASSASSIN |-> "Assassin", MORGANA |-> "Morgana", MORDRED |-> "Mordred",
     OBERON |-> "Oberon", MINION |-> "Minion of Mordred",
     GOOD |-> "Good", EVIL |-> "Evil",
     SETUP |-> "Setup", TEAM_BUILDING |-> "Team Building",
     TEAM_VOTING |-> "Team Voting", QUEST |-> "Quest",
     ASSASSINATION |-> "Assassination", GAME_END |-> "Game End",
     SUCCESS |-> "Success", FAIL |-> "Fail", PENDING |-> "Pending",
     NOT_STARTED |-> "Not Started",
     APPROVE |-> "Approve", REJECT |-> "Reject"]

EnumValue(member) == EnumValues[member]

\* the rows made of a player's team_vote_history
TeamVoteRows(pl) ==
    [i \in DOMAIN pl.team_vote_history |->
        LET record == pl.team_vote_history[i]
        IN  [quest |-> record.quest_number,
             leader |-> record.leader,
             proposed_team |-> record.proposed_team,
             vote |-> EnumValue(record.vote),
             quest_result |-> IF record.quest_result # None
                              THEN EnumValue(record.quest_result) ELSE None]]

\* the rows made of a player's quest_vote_history
QuestVoteRows(pl) ==
    [i \in DOMAIN pl.quest_vote_history |->
        LET record == pl.quest_vote_history[i]
        IN  [quest |-> record.quest_number,
             team |-> record.team,
             vote |-> EnumValue(record.vote)]]

\* the snapshot is never cut down to one player
IsFiltered_never(for_player) == FALSE

\* if for_player:
IsFiltered(for_player) == for_player # NoPlayer

get_game_state(g, for_player) ==
    LET quest == get_current_quest(g)
        ended == g.phase = "GAME_END"
        state ==
            [phase |-> EnumValue(g.phase),
             current_quest_number |-> g.current_quest_idx + 1,
             succeeded_quests |-> g.succeeded_quests,
             failed_quests |-> g.failed_quests,
             current_leader |-> get_current_leader(g),
             failed_votes_count |-> g.failed_votes_count,
             current_quest |->
                [required_team_size |-> quest.required_team_size,
                 fails_required |-> quest.fails_required,
                 team |-> IF quest.team # <<>> THEN quest.team ELSE <<>>]]
        filtered ==
            LET me == g.players[for_player]
                visible == get_visible_roles(g, for_player)
                team_votes == [team_votes |-> TeamVoteRows(me)]
            IN  Update(state,
                    [role |-> EnumValue(me.role),
                     team |-> EnumValue(me.team),
                     visible_roles |->
                        [p \in DOMAIN visible |-> EnumValue(visible[p])],
                     voting_history |->
                        IF ended
                        THEN Put(team_votes, "quest_votes", QuestVoteRows(me))
                        ELSE team_votes])
        full ==
            Put(state, "players",
                [p \in DOMAIN g.players |->
                    LET p_state ==
                            [role |-> EnumValue(g.players[p].role),
                             team |-> EnumValue(g.players[p].team),
                             team_votes |-> TeamVoteRows(g.players[p])]
                    IN  IF ended
                        THEN Put(p_state, "quest_votes",
                                 QuestVoteRows(g.players[p]))
                        ELSE p_state])
        state2 == IF IsFiltered(for_player) THEN filtered ELSE full
    IN  IF ended
        THEN Put(state2, "winner",
                 IF get_winner(g) # None THEN EnumValue(get_winner(g)) ELSE None)
        ELSE state2

\* the caller asks for a snapshot: the full one, or one player's
GetGameState(for_player) ==
    /\ UNCHANGED gvars
    /\ call' = [op |-> "get_game_state", err |-> "ok", player |-> for_player,
                ret |-> get_game_state(Game, for_player)]

\* a started game is asked for snapshots between the calls of the driver loop
TakeSnapshot ==
    /\ phase # "SETUP"
    /\ call.op # "get_game_state"
    /\ \E for_player \in PlayerIds \cup {NoPlayer} : GetGameState(for_player)

InitSnapshot == InitGame(MinPlayers, DefaultRoleList(MinPlayers), 0)

NextSnapshot ==
    \/ StartGame
    \/ DriverPropose
    \/ DriverTeamVote(current_quest_idx = 0)
    \/ DriverQuestVote
    \/ DriverAssassinate
    \/ TakeSnapshot

SpecSnapshot == InitSnapshot /\ [][NextSnapshot]_vars

\* the last call returned a snapshot
Snapshot == call.op = "get_game_state"

\* the entries of every snapshot
BaseKeys ==
    {"phase", "current_quest_number", "succeeded_quests", "failed_quests",
     "current_leader", "failed_votes_count", "current_quest"}

\* a snapshot without some of its entries
Without(state, keys) == [k \in DOMAIN state \ keys |-> state[k]]

\* C20: a player's snapshot holds the player's own role and team, the
\* visible_roles entry equal to get_visible_roles of the player, and nothing
\* else that depends on the roles of the others: but for visible_roles and the
\* winner it stays the same when another player's role is replaced.  It has no
\* entry for the other players.  In a player's snapshot and in the full one the
\* quest vote rows and the winner are there exactly at GAME_END, and the winner
\* is then a team.
C20_SnapshotShowsVisibleRolesOnly ==
    Snapshot =>
        LET state == call.ret
            for_player == call.player
            ended == phase = "GAME_END"
            visible == get_visible_roles(Game, for_player)
        IN  /\ ("winner" \in DOMAIN state) <=> ended
            /\ ended => state.winner \in {"Good", "Evil"}
            /\ for_player # NoPlayer =>
                  /\ DOMAIN state \ {"winner"} =
                        BaseKeys \cup
                        {"role", "team", "visible_roles", "voting_history"}
                  /\ state.role = EnumValue(players[for_player].role)
                  /\ state.team = EnumValue(players[for_player].team)
                  /\ state.visible_roles =
                        [p \in DOMAIN visible |-> EnumValue(visible[p])]
                  /\ DOMAIN state.voting_history \ {"quest_votes"} = {"team_votes"}
                  /\ ("quest_votes" \in DOMAIN state.voting_history) <=> ended
                  /\ \A q \in PlayerIds \ {for_player} : \A role \in Role :
                        Without(get_game_state(WithRole(Game, q, role), for_player),
                                {"visible_roles", "winner"})
                           = Without(state, {"visible_roles", "winner"})
            /\ for_player = NoPlayer =>
                  /\ DOMAIN state \ {"winner"} = BaseKeys \cup {"players"}
                  /\ \A p \in PlayerIds :
                        /\ DOMAIN state.players[p] \ {"quest_votes"} =
                              {"role", "team", "team_votes"}
                        /\ ("quest_votes" \in DOMAIN state.players[p]) <=> ended

\* during a later quest a player who has voted on a quest asks for its
\* snapshot: the quest vote rows and the winner are absent
C20_Witness ==
    /\ Snapshot
    /\ call.player # NoPlayer
    /\ phase = "QUEST"
    /\ players[call.player].quest_vote_history # <<>>
    /\ Cardinality(DOMAIN call.ret.visible_roles) > 1
    /\ "quest_votes" \notin DOMAIN call.ret.voting_history
    /\ "winner" \notin DOMAIN call.ret

\* after the assassin has hit Merlin a player's snapshot has the quest vote
\* rows and the winner
C20_WitnessEnded ==
    /\ Snapshot
    /\ call.player # NoPlayer
    /\ phase = "GAME_END"
    /\ assassinated_player # NoPlayer
    /\ call.ret.winner = "Evil"
    /\ call.ret.voting_history.quest_votes # <<>>

\* the full snapshot of a game that ended by rejected proposals, and the full
\* snapshot of a running game in which quest votes have been cast
C20_WitnessFull ==
    /\ Snapshot
    /\ call.player = NoPlayer
    /\ phase = "GAME_END"
    /\ failed_votes_count = MAX_FAILED_VOTES
    /\ \A p \in PlayerIds : call.ret.players[p].quest_votes = <<>>

C20_WitnessFullRunning ==
    /\ Snapshot
    /\ call.player = NoPlayer
    /\ phase = "TEAM_BUILDING"
    /\ \E p \in PlayerIds :
          /\ players[p].quest_vote_history # <<>>
          /\ "quest_votes" \notin DOMAIN call.ret.players[p]

---------------------------------------------------------------------------
(* game.py: AvalonGame.__init__ as a call that can fail *)

\* player counts handed to the constructor: one below and one above the range
FewestNames == MinPlayers - 1

MostNames == MaxPlayersAllowed + 1

\* the largest player count constructed with a custom role map
MaxCustomPlayers == 5

\* the largest quantity in a custom role map
MaxRoleCount == 2

\* the members of Role in the order of enums.py
RoleOrder ==
    <<"MERLIN", "PERCIVAL", "LOYAL_SERVANT",
      "ASSASSIN", "MORGANA", "MORDRED", "OBERON", "MINION">>

\* custom role maps: some roles, each with a quantity; the empty map included
CustomRoleMaps == UNION {[D -> 1..MaxRoleCount] : D \in SUBSET Role}

\* role_counts[team] after the loop of _validate_custom_roles
RoleCountsOf(custom_roles, roles) ==
    Cardinality({rk \in (DOMAIN custom_roles \cap roles) \X (1..MaxRoleCount) :
                    rk[2] <= custom_roles[rk[1]]})

_validate_custom_roles(n, custom_roles) ==
    IF RoleCountsOf(custom_roles, GoodRoles) # ROLE_CONFIGS[n].good
    THEN "ValueError"
    ELSE IF RoleCountsOf(custom_roles, Role \ GoodRoles) # ROLE_CONFIGS[n].evil
    THEN "ValueError"
    ELSE "ok"

\* _assign_custom_roles: roles.extend([role] * count) for every item
RECURSIVE CustomRoleListFrom(_, _)
CustomRoleListFrom(custom_roles, i) ==
    IF i > Len(RoleOrder) THEN <<>>
    ELSE (IF RoleOrder[i] \in DOMAIN custom_roles
          THEN Repeat(RoleOrder[i], custom_roles[RoleOrder[i]])
          ELSE <<>>) \o CustomRoleListFrom(custom_roles, i + 1)

CustomRoleList(custom_roles) == CustomRoleListFrom(custom_roles, 1)

\* the checks of __init__ and the role list it hands to _assign_roles;
\* "if custom_roles:" takes a map without items for no map, and no map
\* (custom_roles=None) is written here as the map without items
RolesToAssign(n, custom_roles) ==
    IF ~(MinPlayers <= n /\ n <= MaxPlayersAllowed)
    THEN [err |-> "ValueError", roles |-> <<>>]
    ELSE IF DOMAIN custom_roles # {}
    THEN IF _validate_custom_roles(n, custom_roles) # "ok"
         THEN [err |-> "ValueError", roles |-> <<>>]
         ELSE [err |-> "ok", roles |-> CustomRoleList(custom_roles)]
    ELSE [err |-> "ok", roles |-> DefaultRoleList(n)]

\* the constructor has not been called
NoGame ==
    /\ call.op = "none"
    /\ player_count = 0
    /\ players = EmptyDict
    /\ quests = <<>>
    /\ current_quest_idx = 0
    /\ current_leader_idx = 0
    /\ phase = None
    /\ failed_votes_count = 0
    /\ succeeded_quests = 0
    /\ failed_quests = 0
    /\ assassin = NoPlayer
    /\ assassinated_player = NoPlayer

\* AvalonGame(player_names, custom_roles): the shuffle and the leader draw
\* take any of their outcomes; a constructor that raises leaves no game
Construct(n, given, custom_roles) ==
    /\ LET r == RolesToAssign(n, custom_roles)
       IN  IF r.err # "ok"
           THEN /\ UNCHANGED gvars
                /\ call' = [op |-> "init", err |-> r.err, n |-> n,
                            given |-> given, custom_roles |-> custom_roles]
           ELSE \E roles \in Shuffles(r.roles), leader \in 0..(n - 1) :
                   /\ player_count' = n
                   /\ players' = AssignedPlayers(n, roles)
                   /\ quests' = _setup_quests(n)
                   /\ current_quest_idx' = 0
                   /\ current_leader_idx' = leader
                   /\ phase' = "SETUP"
                   /\ failed_votes_count' = 0
                   /\ succeeded_quests' = 0
                   /\ failed_quests' = 0
                   /\ assassin' = AssassinOf(n, roles)
                   /\ assassinated_player' = NoPlayer
                   /\ call' = [op |-> "init", err |-> "ok", n |-> n,
                               given |-> given, custom_roles |-> custom_roles]

ConstructDefault ==
    /\ NoGame
    /\ \E n \in FewestNames..MostNames : Construct(n, FALSE, EmptyDict)

ConstructCustom ==
    /\ NoGame
    /\ \E n \in FewestNames..MaxCustomPlayers \cup {MostNames} :
          \E custom_roles \in CustomRoleMaps : Construct(n, TRUE, custom_roles)

InitConstruct == call = [op |-> "none", err |-> "ok"] /\ NoGame

NextConstruct == ConstructDefault \/ ConstructCustom

SpecConstruct == InitConstruct /\ [][NextConstruct]_vars

\* the constructor returned a game
Constructed == call.op = "init" /\ call.err = "ok" /\ phase = "SETUP"

\* the number of players holding a role of a set
Holders(roles) == Cardinality({p \in DOMAIN players : players[p].role \in roles})

\* C21: a game constructed without a role map has one MERLIN, one ASSASSIN,
\* the quota of good and of evil players by role and by team, servants and
\* minions in every other seat, and game.assassin is the ASSASSIN's seat,
\* whatever the shuffle gave.
C21_DefaultRoles ==
    (Constructed /\ ~call.given) =>
        /\ player_count \in MinPlayers..MaxPlayersAllowed
        /\ DOMAIN players = 0..(player_count - 1)
        /\ Holders({"MERLIN"}) = 1
        /\ Holders({"ASSASSIN"}) = 1
        /\ Holders(GoodRoles) = ROLE_CONFIGS[player_count].good
        /\ Holders(EvilRoles) = ROLE_CONFIGS[player_count].evil
        /\ \A p \in DOMAIN players :
              /\ players[p].role \in {"MERLIN", "ASSASSIN", "LOYAL_SERVANT", "MINION"}
              /\ players[p].team = TeamOfRole(players[p].role)
        /\ assassin \in DOMAIN players
        /\ players[assassin].role = "ASSASSIN"

\* ten players, the ASSASSIN in the first seat and MERLIN in the last
C21_Witness ==
    /\ Constructed
    /\ ~call.given
    /\ player_count = MaxPlayersAllowed
    /\ assassin = 0
    /\ players[player_count - 1].role = "MERLIN"

\* the good and the evil quantities of a role map add up to the quota of n
MatchesQuota(n, custom_roles) ==
    /\ RoleCountsOf(custom_roles, GoodRoles) = ROLE_CONFIGS[n].good
    /\ RoleCountsOf(custom_roles, EvilRoles) = ROLE_CONFIGS[n].evil

\* the seats hold the roles of the map, each as often as the map says
AssignedAsMapped(custom_roles) ==
    /\ \A p \in DOMAIN players : players[p].role \in Role
    /\ \A role \in Role :
          Holders({role}) = IF role \in DOMAIN custom_roles
                            THEN custom_roles[role] ELSE 0

\* C22: the constructor succeeds exactly when the player count is in 5..10
\* and a role map, if one is handed in, has the good and the evil quota of
\* that count; a game made from a role map has a role in every seat and
\* holds the roles of the map, each as often as the map says.
C22_ConstructionSucceedsIffValid ==
    call.op = "init" =>
        /\ call.err = "ok" <=>
              /\ call.n \in MinPlayers..MaxPlayersAllowed
              /\ call.given => MatchesQuota(call.n, call.custom_roles)
        /\ (call.err = "ok" /\ call.given) =>
              AssignedAsMapped(call.custom_roles)

\* the same for the role maps that have at least one item
C22_HoldsForMapsWithItems ==
    (call.op = "init" /\ (call.given => DOMAIN call.custom_roles # {})) =>
        /\ call.err = "ok" <=>
              /\ call.n \in MinPlayers..MaxPlayersAllowed
              /\ call.given => MatchesQuota(call.n, call.custom_roles)
        /\ (call.err = "ok" /\ call.given) =>
              AssignedAsMapped(call.custom_roles)

\* a role map without items is handed in and a game with the default roles
\* comes back
C22_Witness ==
    /\ Constructed
    /\ call.given
    /\ call.custom_roles = EmptyDict
    /\ Holders({"MERLIN"}) = 1
    /\ Holders({"ASSASSIN"}) = 1

\* a role map with the quota is accepted, one with a wrong evil total refused
C22_WitnessAccepted ==
    /\ Constructed
    /\ call.given
    /\ Holders({"PERCIVAL"}) = 1
    /\ Holders({"MORGANA"}) = 2

C22_WitnessRefused ==
    /\ call.op = "init"
    /\ call.err = "ValueError"
    /\ call.n = MinPlayers
    /\ call.given
    /\ RoleCountsOf(call.custom_roles, GoodRoles) = ROLE_CONFIGS[call.n].good
    /\ RoleCountsOf(call.custom_roles, EvilRoles) > ROLE_CONFIGS[call.n].evil

---------------------------------------------------------------------------
(* the quests of a game, for every player count *)

InitAllCounts ==
    \E n \in MinPlayers..MaxPlayersAllowed : InitGame(n, DefaultRoleList(n), 0)

\* the driver loop; proposals are rejected during the first quest only
NextAllCounts ==
    \/ StartGame
    \/ DriverPropose
    \/ DriverTeamVote(current_quest_idx = 0)
    \/ DriverQuestVote
    \/ DriverAssassinate

SpecAllCounts == InitAllCounts /\ [][NextAllCounts]_vars

\* C23: a game has the 5 quests numbered 1..5; the team size of each is the
\* entry of the QUEST_CONFIGS row of the player count; two fail votes are
\* needed exactly at the positions listed in QUEST_FAILURES_REQUIRED and one
\* elsewhere; 1 <= fails_required <= required_team_size < player_count; and
\* this is so in the fresh game and in every later state of play.
C23_QuestTable ==
    /\ player_count \in MinPlayers..MaxPlayersAllowed
    /\ DOMAIN quests = 1..NumQuests
    /\ \A i \in DOMAIN quests :
          /\ quests[i].quest_number = i
          /\ quests[i].required_team_size = QUEST_CONFIGS[player_count][i]
          /\ quests[i].fails_required =
                IF (i - 1) \in QUEST_FAILURES_REQUIRED[player_count] THEN 2 ELSE 1
          /\ quests[i].fails_required = 2 <=>
                \/ player_count >= TwoFailPlayers /\ i = 4
                \/ player_count = MaxPlayersAllowed /\ i = 5
          /\ 1 <= quests[i].fails_required
          /\ quests[i].fails_required <= quests[i].required_team_size
          /\ quests[i].required_team_size < player_count

\* a ten-player game that has completed its fourth quest, a quest of five
\* that failed on two fail votes
C23_Witness ==
    /\ player_count = MaxPlayersAllowed
    /\ current_quest_idx = 4
    /\ quests[4].result = "FAIL"
    /\ quests[4].fails_required = 2
    /\ CountVotes(quests[4].in_quest_votes, "FAIL") = 2
    /\ quests[5].fails_required = 2

---------------------------------------------------------------------------
(* the team vote histories *)

\* the records of a history that belong to other quests than quest number k
OfOtherQuests(history, k) == SelectSeq(history, LAMBDA r : r.quest_number # k)

\* the result a completed quest has, None for a quest not completed
CompletedResult(q) == IF q.result \in {"SUCCESS", "FAIL"} THEN q.result ELSE None

\* C24: when a quest completes with result R, every team vote record of its
\* number in every player's history carries R, the records of rejected
\* proposals for that quest among them, and the records of the other quests
\* are as before; in every state a record carries the result of its quest if
\* that quest has completed and no result if it has not.
C24_BackfillOnCompletion ==
    /\ [](\A p \in DOMAIN players :
            \A i \in DOMAIN players[p].team_vote_history :
                LET rec == players[p].team_vote_history[i]
                IN  rec.quest_result = CompletedResult(quests[rec.quest_number]))
    /\ [][QuestCompletes =>
            LET k == current_quest_idx + 1
            IN  \A p \in DOMAIN players :
                    /\ \A i \in DOMAIN players'[p].team_vote_history :
                          players'[p].team_vote_history[i].quest_number = k =>
                              players'[p].team_vote_history[i].quest_result
                                  = quests'[k].result
                    /\ OfOtherQuests(players'[p].team_vote_history, k)
                          = OfOtherQuests(players[p].team_vote_history, k)]_vars

\* the second quest has failed after proposals for it were rejected: a player
\* has a REJECT record of quest 2 carrying FAIL and a record of quest 1
\* carrying SUCCESS, while quest 3 is open
C24_Witness ==
    /\ current_quest_idx = 2
    /\ quests[1].result = "SUCCESS"
    /\ quests[2].result = "FAIL"
    /\ \E p \in PlayerIds :
          \E i, j \in DOMAIN players[p].team_vote_history :
              LET h == players[p].team_vote_history
              IN  /\ h[i].quest_number = 1 /\ h[i].quest_result = "SUCCESS"
                  /\ h[j].quest_number = 2 /\ h[j].vote = "REJECT"
                  /\ h[j].quest_result = "FAIL"

---------------------------------------------------------------------------
(* the driver loop with its own quest.process_result() after the quest votes *)
(* (examples/simple_game.py:176-187)                                          *)

\* the last call was the quest vote that completed a quest
QuestJustCompleted ==
    call.op = "vote_on_quest" /\ call.err = "ok" /\ phase # "QUEST"

\* quest = game.get_current_quest() taken before the votes: the quest that
\* has just completed
CompletedQuest ==
    IF phase = "TEAM_BUILDING" THEN current_quest_idx ELSE current_quest_idx + 1

\* result = quest.process_result()
DriverProcessResult ==
    /\ QuestJustCompleted
    /\ ProcessResult(CompletedQuest)

\* the next turn of the loop comes after the driver's process_result
ProposeAfterResult == ~QuestJustCompleted /\ DriverPropose

AssassinateAfterResult == ~QuestJustCompleted /\ DriverAssassinate

\* proposals are rejected during the first two quests only
NextDriverLoop ==
    \/ StartGame
    \/ ProposeAfterResult
    \/ DriverTeamVote(current_quest_idx <= 1 /\ RejectedProposals < MaxRejections)
    \/ DriverQuestVote
    \/ DriverProcessResult
    \/ AssassinateAfterResult

InitDriverLoop == InitGame(MinPlayers, DefaultRoleList(MinPlayers), 0)

SpecDriverLoop == InitDriverLoop /\ [][NextDriverLoop]_vars

\* a step keeps the records a history has: their positions, quest numbers,
\* leaders, teams and votes; a result is only filled in where there was none
KeepsRecords(old, new) ==
    /\ Len(new) >= Len(old)
    /\ \A i \in DOMAIN old :
          /\ new[i].quest_number = old[i].quest_number
          /\ new[i].leader = old[i].leader
          /\ new[i].proposed_team = old[i].proposed_team
          /\ new[i].vote = old[i].vote
          /\ old[i].quest_result # None => new[i].quest_result = old[i].quest_result

\* C25: every step leaves each player's team vote history append-only: the
\* records it had keep their position, quest number, leader, team and vote,
\* and only gain a quest result; also for a quest that had rejected proposals
\* and for the driver's own call of process_result.
C25_TeamVoteHistoryAppendOnly ==
    [][\A p \in DOMAIN players :
          KeepsRecords(players[p].team_vote_history,
                       players'[p].team_vote_history)]_vars

\* the same for the steps of a game in which no proposal has been rejected
C25_HoldsWithoutRejections ==
    [][(\A i \in DOMAIN quests : quests[i].team_vote_counter = 0) =>
          \A p \in DOMAIN players :
              KeepsRecords(players[p].team_vote_history,
                           players'[p].team_vote_history)]_vars

\* the first quest completed after one rejected proposal: the player's two
\* records of quest 1 are both the APPROVE vote for the second proposal, and
\* the REJECT record of the first proposal is gone
C25_Witness ==
    /\ quests[1].result \in {"SUCCESS", "FAIL"}
    /\ quests[1].team_vote_counter = 1
    /\ \E p \in PlayerIds :
          LET h == players[p].team_vote_history
          IN  /\ Len(h) >= 2
              /\ h[1] = h[2]
              /\ h[1].vote = "APPROVE"
              /\ h[1].leader = quests[1].leader
              /\ \A i \in DOMAIN h : h[i].vote # "REJECT"

\* the driver's call after a quest without rejected proposals: it is accepted
\* and the history is as the engine left it
C25_WitnessDriverCall ==
    /\ call.op = "process_result"
    /\ call.err = "ok"
    /\ \A i \in DOMAIN quests : quests[i].team_vote_counter = 0
    /\ quests[2].result \in {"SUCCESS", "FAIL"}

---------------------------------------------------------------------------
(* whole games in which a team member votes on a quest more than once *)

\* quest votes cast again by a member who had voted, in a run
MaxRepeatVotes == 1

\* the entries of the quest vote tallies of quests 1..i
RECURSIVE QuestTallyUpTo(_)
QuestTallyUpTo(i) ==
    IF i < 1 THEN 0
    ELSE Cardinality(DOMAIN quests[i].in_quest_votes) + QuestTallyUpTo(i - 1)

\* the quest votes that replaced an earlier vote of the same member
RepeatVotes == QuestVotesCast - QuestTallyUpTo(Len(quests))

\* a member of the team who has voted on the quest votes again
RepeatQuestVote ==
    /\ phase = "QUEST"
    /\ RepeatVotes < MaxRepeatVotes
    /\ \E p \in DOMAIN CurrentQuest.in_quest_votes :
          \E v \in QuestVotesOf(p) : VoteOnQuest(p, v)

InitRepeatVotes == InitGame(MinPlayers, DefaultRoleList(MinPlayers), 0)

NextRepeatVotes ==
    \/ StartGame
    \/ DriverPropose
    \/ DriverTeamVote(current_quest_idx = 0)
    \/ DriverQuestVote
    \/ RepeatQuestVote
    \/ DriverAssassinate

SpecRepeatVotes == InitRepeatVotes /\ [][NextRepeatVotes]_vars

\* the quests with a result
QuestsWith(result) == {i \in DOMAIN quests : quests[i].result = result}

\* the FAIL records of quest number i in the quest vote histories
FailRecords(i) ==
    {pk \in PlayerIds \X (1..(NumQuests * (1 + MaxRepeatVotes))) :
        /\ pk[2] \in DOMAIN players[pk[1]].quest_vote_history
        /\ players[pk[1]].quest_vote_history[pk[2]].quest_number = i
        /\ players[pk[1]].quest_vote_history[pk[2]].vote = "FAIL"}

\* the counters and the results are those the histories give
AgreesWithHistories ==
    /\ succeeded_quests = Cardinality(QuestsWith("SUCCESS"))
    /\ failed_quests = Cardinality(QuestsWith("FAIL"))
    /\ \A i \in QuestsWith("SUCCESS") \cup QuestsWith("FAIL") :
          quests[i].result = "FAIL" <=>
              Cardinality(FailRecords(i)) >= quests[i].fails_required

\* C26: at GAME_END succeeded_quests and failed_quests are the numbers of
\* quests with result SUCCESS and FAIL, and the result of every completed
\* quest is the one recomputed from the quest vote records of its number in
\* the players' histories (FAIL iff the FAIL records are at least
\* fails_required), also when a team member has voted more than once.
C26_CountersAgreeWithHistories ==
    phase = "GAME_END" => AgreesWithHistories

\* the same for the games in which no member voted twice on a quest
C26_HoldsWithoutRepeatVotes ==
    (phase = "GAME_END" /\ RepeatVotes = 0) => AgreesWithHistories

\* a game has ended; a quest has result SUCCESS and a member's history holds
\* a FAIL record of it, replaced in the tally by the member's second vote
C26_Witness ==
    /\ phase = "GAME_END"
    /\ RepeatVotes = 1
    /\ \E i \in QuestsWith("SUCCESS") :
          /\ Cardinality(FailRecords(i)) = 1
          /\ CountVotes(quests[i].in_quest_votes, "FAIL") = 0

\* a game without repeated votes that ended with failed and succeeded quests
C26_WitnessAgrees ==
    /\ phase = "GAME_END"
    /\ RepeatVotes = 0
    /\ failed_quests = 3
    /\ succeeded_quests = 2

---------------------------------------------------------------------------
(* the votes of one phase, submitted in every order *)

\* the orders in which the players of a set can be called
Orders(S) == {o \in [1..Cardinality(S) -> S] : Range(o) = S}

\* vote_for_team called for the players of order in turn, each with its vote
RECURSIVE CastTeamVotes(_, _, _)
CastTeamVotes(g, order, votes) ==
    IF order = <<>> THEN [ok |-> TRUE, g |-> g]
    ELSE LET r == vote_for_team(g, Head(order), votes[Head(order)])
             rest == CastTeamVotes(r.g, Tail(order), votes)
         IN  [ok |-> r.err = "ok" /\ rest.ok, g |-> rest.g]

\* vote_on_quest called for the players of order in turn, each with its vote
RECURSIVE CastQuestVotes(_, _, _)
CastQuestVotes(g, order, votes) ==
    IF order = <<>> THEN [ok |-> TRUE, g |-> g]
    ELSE LET r == vote_on_quest(g, Head(order), votes[Head(order)])
             rest == CastQuestVotes(r.g, Tail(order), votes)
         IN  [ok |-> r.err = "ok" /\ rest.ok, g |-> rest.g]

\* a proposal nobody has voted on yet, and a quest nobody has voted on yet
FreshTeamVoting ==
    phase = "TEAM_VOTING" /\ DOMAIN CurrentQuest.pre_quest_votes = {}

FreshQuest == phase = "QUEST" /\ DOMAIN CurrentQuest.in_quest_votes = {}

\* one vote for each player, and one vote a member may cast for each member
TeamVoteAssignments == [PlayerIds -> {"APPROVE", "REJECT"}]

QuestVoteAssignments ==
    {votes \in [Range(CurrentQuest.team) -> {"SUCCESS", "FAIL"}] :
        \A p \in Range(CurrentQuest.team) : votes[p] \in QuestVotesOf(p)}

\* five-player games under the driver loop, proposals rejected during the
\* first quest only
InitVoteOrders == InitGame(MinPlayers, DefaultRoleList(MinPlayers), 0)

SpecVoteOrders == InitVoteOrders /\ [][NextAllCounts]_vars

\* the games the votes leave, over every order of calling the players of S
TeamVoteOutcomes(S, votes) ==
    {CastTeamVotes(Game, order, votes) : order \in Orders(S)}

QuestVoteOutcomes(S, votes) ==
    {CastQuestVotes(Game, order, votes) : order \in Orders(S)}

\* C27: from a proposal (a quest) nobody has voted on yet, for every
\* assignment of one vote to each player (each team member), the votes are
\* accepted in every order and every order leaves the same game: phase,
\* counters, leader, quest index, quests with their results, and every
\* player's histories.
C27_VoteOrderDoesNotMatter ==
    /\ FreshTeamVoting =>
          \A votes \in TeamVoteAssignments :
              LET outcomes == TeamVoteOutcomes(PlayerIds, votes)
              IN  /\ Cardinality(outcomes) = 1
                  /\ \A r \in outcomes : r.ok /\ r.g.phase # "TEAM_VOTING"
    /\ FreshQuest =>
          \A votes \in QuestVoteAssignments :
              LET outcomes == QuestVoteOutcomes(Range(CurrentQuest.team), votes)
              IN  /\ Cardinality(outcomes) = 1
                  /\ \A r \in outcomes : r.ok /\ r.g.phase # "QUEST"

\* the fifth proposal in a row is up for the vote: three REJECT votes end the
\* game in whatever order they come
C27_Witness ==
    /\ FreshTeamVoting
    /\ failed_votes_count = MAX_FAILED_VOTES - 1
    /\ \E votes \in TeamVoteAssignments :
          /\ CountVotes(votes, "REJECT") = 3
          /\ \A order \in Orders(PlayerIds) :
                CastTeamVotes(Game, order, votes).g.phase = "GAME_END"

\* a team of three with an evil member after two failed quests: the FAIL vote
\* ends the game whether it comes first or last
C27_WitnessQuest ==
    /\ FreshQuest
    /\ failed_quests = 2
    /\ CurrentQuest.required_team_size = 3
    /\ \E votes \in QuestVoteAssignments :
          /\ CountVotes(votes, "FAIL") = 1
          /\ \A order \in Orders(Range(CurrentQuest.team)) :
                LET g == CastQuestVotes(Game, order, votes).g
                IN  g.phase = "GAME_END" /\ g.failed_quests = 3

---------------------------------------------------------------------------
(* the rotation of the leader *)

\* the leader of the last accepted proposal: of the current quest if it has
\* had one, else of the quest before; NoPlayer before the first proposal
PreviousProposer ==
    IF CurrentQuest.leader # NoPlayer THEN CurrentQuest.leader
    ELSE IF current_quest_idx > 0 THEN quests[current_quest_idx].leader
    ELSE NoPlayer

\* C28: the leader of an accepted proposal is the seat after the leader of
\* the accepted proposal before it, modulo the player count, whether that
\* one was rejected or was approved and its quest completed; the leader index
\* changes only in the step that rejects a proposal and in the step that
\* completes a quest and opens the next one, and then by exactly one seat.
C28_LeaderRotatesOncePerProposal ==
    /\ [](/\ phase \in {"TEAM_VOTING", "QUEST"} =>
                current_leader_idx = CurrentQuest.leader
          /\ (phase = "TEAM_BUILDING" /\ PreviousProposer # NoPlayer) =>
                current_leader_idx = (PreviousProposer + 1) % player_count)
    /\ [][current_leader_idx' # current_leader_idx =>
             /\ Rejects \/ (QuestCompletes /\ phase' = "TEAM_BUILDING")
             /\ current_leader_idx' = (current_leader_idx + 1) % player_count]_vars
    /\ [][(Rejects /\ phase' = "TEAM_BUILDING")
             \/ (QuestCompletes /\ phase' = "TEAM_BUILDING") =>
             current_leader_idx' = (current_leader_idx + 1) % player_count]_vars

\* seat 0 has proposed for the second quest after the last seat led the
\* first quest, and after a rejected proposal seat 1 proposes
C28_Witness ==
    /\ call = [op |-> "propose_team", err |-> "ok"]
    /\ current_quest_idx = 1
    /\ quests[1].leader = player_count - 1
    /\ quests[2].leader = 1
    /\ quests[2].team_vote_counter = 1
    /\ current_leader_idx = 1

---------------------------------------------------------------------------
(* propose_team under every caller and every team *)

\* the teams handed to propose_team: lists of players, one member short of
\* the required size, of the required size, and one member over it
ProposableTeams ==
    UNION {[1..k -> PlayerIds] :
              k \in (CurrentQuest.required_team_size - 1)
                        ..(CurrentQuest.required_team_size + 1)}

\* the proposal the claim calls acceptable
ValidProposal(leader, team) ==
    /\ phase = "TEAM_BUILDING"
    /\ leader = current_leader_idx
    /\ Len(team) = CurrentQuest.required_team_size
    /\ \A i, j \in DOMAIN team : i # j => team[i] # team[j]

\* C29: in every state, for every caller and every team, propose_team is
\* accepted exactly when the phase is TEAM_BUILDING, the caller is the
\* current leader, the team has the required size and no player twice; an
\* accepted call leaves the game with the team as proposed, in its order, as
\* the quest's team, the caller as its leader, the phase TEAM_VOTING, and
\* nothing else changed but the quest's emptied tallies.  Every accepted
\* propose_team step of a run is of that kind.
C29_ProposalAcceptedIffValid ==
    /\ [](\A leader \in PlayerIds : \A team \in ProposableTeams :
            LET r == propose_team(Game, leader, team)
            IN  /\ r.err = "ok" <=> ValidProposal(leader, team)
                /\ r.err = "ok" =>
                      r.g = [Game EXCEPT
                               !.phase = "TEAM_VOTING",
                               !.quests[current_quest_idx + 1] =
                                   [CurrentQuest EXCEPT
                                       !.team = team, !.leader = leader,
                                       !.pre_quest_votes = EmptyDict,
                                       !.in_quest_votes = EmptyDict]])
    /\ [][(call'.op = "propose_team" /\ call'.err = "ok") =>
             /\ phase = "TEAM_BUILDING"
             /\ phase' = "TEAM_VOTING"
             /\ CurrentQuest'.leader = current_leader_idx
             /\ ValidProposal(current_leader_idx, CurrentQuest'.team)
             /\ UNCHANGED <<current_leader_idx, current_quest_idx>>]_vars

\* the second proposal for the first quest has been accepted: the team is the
\* new leader's and replaces the rejected one
C29_Witness ==
    /\ call = [op |-> "propose_team", err |-> "ok"]
    /\ phase = "TEAM_VOTING"
    /\ current_quest_idx = 0
    /\ CurrentQuest.team_vote_counter = 1
    /\ CurrentQuest.leader = current_leader_idx
    /\ CurrentQuest.team = TeamFrom(current_leader_idx, CurrentQuest.required_team_size)
    /\ CurrentQuest.pre_quest_votes = EmptyDict

---------------------------------------------------------------------------
(* votes of the wrong kind *)

\* the lengths of the tallies and of the histories of a game
VoteLengths(g) ==
    [tallies |-> [i \in DOMAIN g.quests |->
                    <<Cardinality(DOMAIN g.quests[i].pre_quest_votes),
                      Cardinality(DOMAIN g.quests[i].in_quest_votes)>>],
     histories |-> [p \in DOMAIN g.players |->
                    <<Len(g.players[p].team_vote_history),
                      Len(g.players[p].quest_vote_history)>>]]

\* C30: in every state and for every player, vote_for_team refuses SUCCESS
\* and FAIL and vote_on_quest refuses APPROVE and REJECT, leaving the game as
\* it was, tallies and histories included; Player.add_team_vote refuses
\* SUCCESS and FAIL and Player.add_quest_vote refuses APPROVE and REJECT,
\* leaving the player's histories as they were; and a step of a run that is
\* refused for the kind of its vote changes nothing.
C30_WrongKindOfVoteRefused ==
    /\ [](\A p \in PlayerIds :
            /\ \A vote \in {"SUCCESS", "FAIL"} :
                  /\ vote_for_team(Game, p, vote).err # "ok"
                  /\ VoteLengths(vote_for_team(Game, p, vote).g) = VoteLengths(Game)
                  /\ vote_for_team(Game, p, vote).g = Game
                  /\ LET r == Player_add_team_vote(players[p], vote,
                                  current_quest_idx + 1, current_leader_idx,
                                  CurrentQuest.team, None)
                     IN  r.err = "ValueError" /\ r.player = players[p]
            /\ \A vote \in {"APPROVE", "REJECT"} :
                  /\ vote_on_quest(Game, p, vote).err # "ok"
                  /\ VoteLengths(vote_on_quest(Game, p, vote).g) = VoteLengths(Game)
                  /\ vote_on_quest(Game, p, vote).g = Game
                  /\ LET r == Player_add_quest_vote(players[p], vote,
                                  current_quest_idx + 1, CurrentQuest.team)
                     IN  r.err = "ValueError" /\ r.player = players[p])
    /\ [][call'.err = "vote" => UNCHANGED gvars]_vars

\* the leader's SUCCESS vote has been refused while the team vote is under
\* way: the tally holds the two votes cast before, the leader has no entry in
\* it and no record but those of the rejected proposals
C30_Witness ==
    /\ call = [op |-> "vote_for_team", err |-> "vote"]
    /\ phase = "TEAM_VOTING"
    /\ Cardinality(DOMAIN CurrentQuest.pre_quest_votes) = 2
    /\ current_leader_idx \notin DOMAIN CurrentQuest.pre_quest_votes
    /\ Len(players[current_leader_idx].team_vote_history)
          = CurrentQuest.team_vote_counter
    /\ Len(players[current_leader_idx].quest_vote_history) = 0

\* a member's REJECT vote has been refused during the quest
C30_WitnessQuest ==
    /\ call = [op |-> "vote_on_quest", err |-> "vote"]
    /\ phase = "QUEST"
    /\ current_leader_idx \in Range(CurrentQuest.team)
    /\ current_leader_idx \notin DOMAIN CurrentQuest.in_quest_votes

---------------------------------------------------------------------------
(* roles and teams during play *)

\* C31: in every state of a game, assign_role on any player with any role is
\* refused and leaves the player as it was; each player's team is GOOD
\* exactly when the role is MERLIN, PERCIVAL or LOYAL_SERVANT, and EVIL
\* otherwise; no step, accepted or refused, of propose_team, vote_for_team,
\* vote_on_quest or assassinate changes a role, a team or the assassin.
C31_RoleWriteOnceTeamDerived ==
    /\ [](\A p \in PlayerIds :
            /\ players[p].role \in Role
            /\ players[p].team \in {GOOD, EVIL}
            /\ players[p].team = GOOD <=>
                  players[p].role \in {"MERLIN", "PERCIVAL", "LOYAL_SERVANT"}
            /\ \A role \in Role :
                  LET r == Player_assign_role(players[p], role)
                  IN  r.err = "ValueError" /\ r.player = players[p])
    /\ [][/\ assassin' = assassin
          /\ \A p \in PlayerIds :
                /\ players'[p].role = players[p].role
                /\ players'[p].team = players[p].team]_vars

\* the assassin has hit Merlin at the end of a seven-player game: the roles
\* and the assassin reference are those of the fresh game
C31_Witness ==
    /\ call = [op |-> "assassinate", err |-> "ok"]
    /\ player_count = TwoFailPlayers
    /\ phase = "GAME_END"
    /\ assassin = 1
    /\ players[assassin].role = "ASSASSIN"
    /\ players[assassin].team = EVIL
    /\ assassinated_player = 0
    /\ players[0].role = "MERLIN"
    /\ players[0].team = GOOD

---------------------------------------------------------------------------
(* the quest counters *)

\* C32: in every state succeeded_quests + failed_quests is at most 5 and
\* neither counter exceeds 3; no step decreases either counter.
C32_QuestCountersBounded ==
    /\ [](/\ succeeded_quests \in 0..WinsNeeded
          /\ failed_quests \in 0..WinsNeeded
          /\ succeeded_quests + failed_quests <= NumQuests)
    /\ [][/\ succeeded_quests' >= succeeded_quests
          /\ failed_quests' >= failed_quests]_vars

\* the fifth quest has decided a game that stood at two quests each
C32_Witness ==
    /\ call = [op |-> "vote_on_quest", err |-> "ok"]
    /\ current_quest_idx = NumQuests - 1
    /\ CurrentQuest.result \in {"SUCCESS", "FAIL"}
    /\ succeeded_quests + failed_quests = NumQuests
    /\ WinsNeeded \in {succeeded_quests, failed_quests}

---------------------------------------------------------------------------
(* the tallies of a new proposal *)

\* the last team vote record of player p was written for the proposal on
\* the table
VotedOnThisProposal(p) ==
    LET history == players[p].team_vote_history
    IN  /\ Len(history) > 0
        /\ history[Len(history)].quest_number = CurrentQuest.quest_number
        /\ history[Len(history)].leader = CurrentQuest.leader
        /\ history[Len(history)].proposed_team = CurrentQuest.team
        /\ history[Len(history)].vote = CurrentQuest.pre_quest_votes[p]

\* C33: every accepted propose_team leaves both tallies of the current quest
\* empty; while a proposal is voted on, the tally holds only votes cast on
\* that proposal, from fewer than all players, and no quest vote; the team
\* vote is tabulated by the step that brings the tally to one vote from each
\* player, also after a rejection; the step that approves a team starts the
\* quest with no quest vote recorded.
C33_ProposalStartsWithEmptyTallies ==
    /\ [](phase = "TEAM_VOTING" =>
            /\ Cardinality(DOMAIN CurrentQuest.pre_quest_votes) < player_count
            /\ \A p \in DOMAIN CurrentQuest.pre_quest_votes : VotedOnThisProposal(p)
            /\ CurrentQuest.in_quest_votes = EmptyDict)
    /\ [][/\ (call'.op = "propose_team" /\ call'.err = "ok") =>
                /\ CurrentQuest'.pre_quest_votes = EmptyDict
                /\ CurrentQuest'.in_quest_votes = EmptyDict
          /\ (phase = "TEAM_VOTING" /\ phase' # "TEAM_VOTING") =>
                /\ Cardinality(DOMAIN CurrentQuest.pre_quest_votes) = player_count - 1
                /\ DOMAIN quests'[current_quest_idx + 1].pre_quest_votes = PlayerIds
          /\ (phase # "QUEST" /\ phase' = "QUEST") =>
                CurrentQuest'.in_quest_votes = EmptyDict]_vars

\* a new proposal has been accepted after a rejected one on the same quest:
\* the rejecting votes are in the histories and not in the tally
C33_Witness ==
    /\ call = [op |-> "propose_team", err |-> "ok"]
    /\ phase = "TEAM_VOTING"
    /\ CurrentQuest.team_vote_counter >= 1
    /\ CurrentQuest.pre_quest_votes = EmptyDict
    /\ \A p \in PlayerIds :
          \E i \in DOMAIN players[p].team_vote_history :
              players[p].team_vote_history[i].quest_number = CurrentQuest.quest_number

\* the second proposal of a quest has been approved by the vote of the last
\* player and the quest starts with no vote
C33_WitnessQuest ==
    /\ call = [op |-> "vote_for_team", err |-> "ok"]
    /\ phase = "QUEST"
    /\ CurrentQuest.team_vote_counter = 1
    /\ DOMAIN CurrentQuest.pre_quest_votes = PlayerIds
    /\ CurrentQuest.in_quest_votes = EmptyDict

---------------------------------------------------------------------------
(* the results of the quests *)

\* C34: in every state no quest is PENDING, the quests after the current one
\* are NOT_STARTED, and succeeded_quests and failed_quests are the numbers
\* of quests with result SUCCESS and FAIL; a step that changes the result
\* of a quest changes it from NOT_STARTED to SUCCESS or FAIL, is an accepted
\* vote_on_quest on the current quest, and is the one that adds the vote of
\* the last team member to the tally.
C34_QuestResultSetOnce ==
    /\ [](/\ \A i \in DOMAIN quests :
                /\ quests[i].result \in {"NOT_STARTED", "SUCCESS", "FAIL"}
                /\ i > current_quest_idx + 1 => quests[i].result = "NOT_STARTED"
          /\ Cardinality(QuestsWith("SUCCESS")) = succeeded_quests
          /\ Cardinality(QuestsWith("FAIL")) = failed_quests)
    /\ [][\A i \in DOMAIN quests :
            quests'[i].result # quests[i].result =>
                /\ quests[i].result = "NOT_STARTED"
                /\ quests'[i].result \in {"SUCCESS", "FAIL"}
                /\ call' = [op |-> "vote_on_quest", err |-> "ok"]
                /\ phase = "QUEST"
                /\ i = current_quest_idx + 1
                /\ Cardinality(DOMAIN quests[i].in_quest_votes)
                      = quests[i].required_team_size - 1
                /\ DOMAIN quests'[i].in_quest_votes = Range(quests[i].team)]_vars

\* the driver has called process_result again on the second quest, which
\* failed after the first succeeded: both results are as the votes set them
C34_Witness ==
    /\ call.op = "process_result"
    /\ current_quest_idx = 2
    /\ quests[1].result = "SUCCESS"
    /\ quests[2].result = "FAIL"
    /\ quests[3].result = "NOT_STARTED"
    /\ succeeded_quests = 1
    /\ failed_quests = 1

---------------------------------------------------------------------------
(* voting again *)

\* history after one more record with this vote, the earlier records kept
OneMoreRecord(old, new, vote) ==
    /\ Len(new) = Len(old) + 1
    /\ SubSeq(new, 1, Len(old)) = old
    /\ new[Len(new)].vote = vote
    /\ new[Len(new)].quest_number = CurrentQuest.quest_number

\* vote_for_team by a player whose vote is already in the tally
TeamRevoteAccepted(p, v) ==
    LET r == vote_for_team(Game, p, v)
        tally == Put(CurrentQuest.pre_quest_votes, p, v)
    IN  /\ r.err = "ok"
        /\ r.g.phase = "TEAM_VOTING"
        /\ r.g.failed_votes_count = failed_votes_count
        /\ r.g.current_leader_idx = current_leader_idx
        /\ r.g.quests[current_quest_idx + 1].pre_quest_votes = tally
        /\ DOMAIN tally = DOMAIN CurrentQuest.pre_quest_votes
        /\ tally[p] = v
        /\ OneMoreRecord(players[p].team_vote_history,
                         r.g.players[p].team_vote_history, v)
        /\ \A o \in PlayerIds \ {p} : r.g.players[o] = players[o]
        \* the vote that then completes the tally is counted with v
        /\ \A l \in PlayerIds \ DOMAIN tally :
           \A w \in {"APPROVE", "REJECT"} :
              Cardinality(DOMAIN tally) = player_count - 1 =>
                 LET r2 == vote_for_team(r.g, l, w)
                 IN  r2.g.phase = "QUEST" <=>
                        2 * CountVotes(Put(tally, l, w), "APPROVE") > player_count

\* vote_on_quest by a team member whose vote is already in the tally
QuestRevoteAccepted(p, v) ==
    LET r == vote_on_quest(Game, p, v)
        tally == Put(CurrentQuest.in_quest_votes, p, v)
    IN  /\ r.err = "ok"
        /\ r.g.phase = "QUEST"
        /\ r.g.succeeded_quests = succeeded_quests
        /\ r.g.failed_quests = failed_quests
        /\ r.g.quests[current_quest_idx + 1].result = "NOT_STARTED"
        /\ r.g.quests[current_quest_idx + 1].in_quest_votes = tally
        /\ DOMAIN tally = DOMAIN CurrentQuest.in_quest_votes
        /\ tally[p] = v
        /\ OneMoreRecord(players[p].quest_vote_history,
                         r.g.players[p].quest_vote_history, v)
        /\ \A o \in PlayerIds \ {p} : r.g.players[o] = players[o]
        \* the vote that then completes the tally is counted with v
        /\ \A l \in Range(CurrentQuest.team) \ DOMAIN tally :
           \A w \in QuestVotesOf(l) :
              Cardinality(DOMAIN tally) = CurrentQuest.required_team_size - 1 =>
                 LET r2 == vote_on_quest(r.g, l, w)
                 IN  r2.g.quests[current_quest_idx + 1].result =
                        QuestOutcome(CountVotes(Put(tally, l, w), "FAIL"),
                                     CurrentQuest.fails_required)

\* C35: during TEAM_VOTING a vote_for_team by a player already in the
\* tally, and during QUEST a vote_on_quest by a team member already in the
\* tally, is accepted: the tally keeps one entry per player with the new vote
\* in place of the old, nothing is tabulated, the voter's history has one
\* more record, and the vote that later completes the tally is counted
\* together with the new vote.  A step of a run that is such a vote keeps
\* the phase and adds one record.
C35_RepeatVoteAccepted ==
    /\ [](/\ phase = "TEAM_VOTING" =>
                \A p \in DOMAIN CurrentQuest.pre_quest_votes :
                \A v \in {"APPROVE", "REJECT"} : TeamRevoteAccepted(p, v)
          /\ phase = "QUEST" =>
                \A p \in DOMAIN CurrentQuest.in_quest_votes :
                \A v \in QuestVotesOf(p) : QuestRevoteAccepted(p, v))
    /\ [][/\ ( /\ phase = "TEAM_VOTING"
               /\ call'.op = "vote_for_team"
               /\ DOMAIN CurrentQuest'.pre_quest_votes
                     = DOMAIN CurrentQuest.pre_quest_votes ) =>
                 /\ call'.err = "ok"
                 /\ phase' = "TEAM_VOTING"
                 /\ TeamVotesCast' = TeamVotesCast + 1
          /\ ( /\ phase = "QUEST"
               /\ call'.op = "vote_on_quest"
               /\ DOMAIN quests'[current_quest_idx + 1].in_quest_votes
                     = DOMAIN CurrentQuest.in_quest_votes ) =>
                 /\ call'.err = "ok"
                 /\ phase' = "QUEST"
                 /\ QuestVotesCast' = QuestVotesCast + 1]_vars

\* a player has voted REJECT and then APPROVE on the first proposal: two
\* records, one tally entry with the later vote, the vote still open
C35_Witness ==
    /\ call = [op |-> "vote_for_team", err |-> "ok"]
    /\ phase = "TEAM_VOTING"
    /\ \E p \in DOMAIN CurrentQuest.pre_quest_votes :
          /\ Len(players[p].team_vote_history) = 2
          /\ players[p].team_vote_history[1].vote = "REJECT"
          /\ players[p].team_vote_history[2].vote = "APPROVE"
          /\ CurrentQuest.pre_quest_votes[p] = "APPROVE"
    /\ TeamVotesCast = Cardinality(DOMAIN CurrentQuest.pre_quest_votes) + 1

\* an evil member has voted FAIL and then SUCCESS on the first quest
C35_WitnessQuest ==
    /\ call = [op |-> "vote_on_quest", err |-> "ok"]
    /\ phase = "QUEST"
    /\ \E p \in DOMAIN CurrentQuest.in_quest_votes :
          /\ Len(players[p].quest_vote_history) = 2
          /\ players[p].quest_vote_history[1].vote = "FAIL"
          /\ players[p].quest_vote_history[2].vote = "SUCCESS"
          /\ CurrentQuest.in_quest_votes[p] = "SUCCESS"

---------------------------------------------------------------------------
(* the driver loop to the end of the game *)

\* the loop of examples/simple_game.py on a five-player game with the
\* default roles: the table may reject any proposal, so that only the engine
\* ends a run of rejections
DriverTeamVoteFree == DriverTeamVote(TRUE)

NextToTheEnd ==
    \/ StartGame
    \/ DriverPropose
    \/ DriverTeamVoteFree
    \/ DriverQuestVote
    \/ DriverAssassinate

InitToTheEnd == InitGame(MinPlayers, DefaultRoleList(MinPlayers), 0)

SpecToTheEnd == InitToTheEnd /\ [][NextToTheEnd]_vars

\* most proposals of one quest slot, and of a game
MaxProposalsPerQuest == MAX_FAILED_VOTES

MaxProposals == MaxProposalsPerQuest * NumQuests

\* the proposals accepted so far for quest slot i: the rejected ones and the
\* one approved or on the table
ProposalsOf(i) ==
    quests[i].team_vote_counter
    + (IF \/ i < current_quest_idx + 1
          \/ /\ i = current_quest_idx + 1
             /\ \/ phase \in {"TEAM_VOTING", "QUEST"}
                \/ quests[i].result # "NOT_STARTED"
       THEN 1 ELSE 0)

\* the command the loop issues in this phase is accepted, whichever voter is
\* next and whatever vote or target the agents choose
LoopTurnAccepted ==
    CASE phase = "SETUP" -> TRUE
      [] phase = "TEAM_BUILDING" ->
            LET r == propose_team(Game, current_leader_idx,
                        TeamFrom(current_leader_idx, CurrentQuest.required_team_size))
            IN  r.err = "ok" /\ r.g.phase = "TEAM_VOTING"
      [] phase = "TEAM_VOTING" ->
            /\ NextTeamVoter # {}
            /\ \A p \in NextTeamVoter : \A v \in {"APPROVE", "REJECT"} :
                  vote_for_team(Game, p, v).err = "ok"
      [] phase = "QUEST" ->
            /\ NextQuestVoter # {}
            /\ \A p \in NextQuestVoter : \A v \in QuestVotesOf(p) :
                  vote_on_quest(Game, p, v).err = "ok"
      [] phase = "ASSASSINATION" ->
            /\ assassin # NoPlayer
            /\ \A t \in PlayerIds :
                  LET r == assassinate(Game, t)
                  IN  r.err = "ok" /\ r.g.phase = "GAME_END"
      [] phase = "GAME_END" -> FALSE

\* the commands issued so far: the start, the proposals, the votes and the
\* assassination
StepsTaken ==
    (IF phase = "SETUP" THEN 0 ELSE 1)
    + ProposalsMade + TeamVotesCast + QuestVotesCast
    + (IF assassinated_player # NoPlayer THEN 1 ELSE 0)

\* the team sizes of quests 1..i
RECURSIVE TeamSizesUpTo(_)
TeamSizesUpTo(i) ==
    IF i = 0 THEN 0 ELSE quests[i].required_team_size + TeamSizesUpTo(i - 1)

\* the commands of the longest game: every proposal with a vote of each
\* player, every quest with a vote of each member, start and assassination
MaxSteps ==
    MaxProposals * (1 + player_count) + TeamSizesUpTo(NumQuests) + 1 + 1

\* C36: a game with an assassin in which the driver keeps issuing the
\* command of the phase reaches GAME_END.  While the game is not over the
\* command of the phase is accepted, every step is one more command, and
\* the commands of a game are bounded: no quest slot has more than 5
\* proposals, no slot after the fifth is played, at most 25 proposals are
\* accepted; the loop stops exactly at GAME_END.
C36_GameTerminates ==
    /\ [](/\ assassin # NoPlayer
          /\ current_quest_idx + 1 \in 1..NumQuests
          /\ \A i \in DOMAIN quests : ProposalsOf(i) <= MaxProposalsPerQuest
          /\ ProposalsMade <= MaxProposals
          /\ StepsTaken <= MaxSteps
          /\ is_game_over(Game) <=> phase = "GAME_END"
          /\ ~is_game_over(Game) => LoopTurnAccepted)
    /\ [][/\ ~is_game_over(Game)
          /\ call'.err = "ok"
          /\ StepsTaken' = StepsTaken + 1]_vars

\* a game of 25 proposals: four rejections before each of five quests
C36_Witness ==
    /\ phase = "GAME_END"
    /\ ProposalsMade = MaxProposals
    /\ \A i \in DOMAIN quests : ProposalsOf(i) = MaxProposalsPerQuest
    /\ succeeded_quests + failed_quests = NumQuests

\* a game ended by the fifth rejection in a row
C36_WitnessAttrition ==
    /\ phase = "GAME_END"
    /\ failed_votes_count = MAX_FAILED_VOTES
    /\ ProposalsOf(current_quest_idx + 1) = MaxProposalsPerQuest
    /\ CurrentQuest.result = "NOT_STARTED"

---------------------------------------------------------------------------
(* the index of the current quest *)

\* C37: in every state current_quest_idx is one of 0..4, so that
\* get_current_quest returns one of the five quests; while the phase is
\* TEAM_BUILDING, TEAM_VOTING or QUEST, current_quest_idx equals
\* succeeded_quests + failed_quests.
C37_CurrentQuestIndex ==
    /\ current_quest_idx \in 0..(NumQuests - 1)
    /\ Len(quests) = NumQuests
    /\ get_current_quest(Game) = quests[current_quest_idx + 1]
    /\ get_current_quest(Game).quest_number = current_quest_idx + 1
    /\ phase \in {"TEAM_BUILDING", "TEAM_VOTING", "QUEST"} =>
          current_quest_idx = succeeded_quests + failed_quests

\* the fifth quest is being voted on after two successes and two failures
C37_Witness ==
    /\ phase = "QUEST"
    /\ current_quest_idx = NumQuests - 1
    /\ succeeded_quests = 2
    /\ failed_quests = 2
    /\ CurrentQuest.in_quest_votes # EmptyDict

\* the fifth quest has ended the game: the index stays on it
C37_WitnessEnded ==
    /\ phase \in {"ASSASSINATION", "GAME_END"}
    /\ current_quest_idx = NumQuests - 1
    /\ succeeded_quests + failed_quests = NumQuests

---------------------------------------------------------------------------
(* the count of consecutive rejections *)

\* C38: failed_votes_count is below 5 in every state that is not GAME_END,
\* is 0 while the phase is QUEST or ASSASSINATION, and equals the current
\* quest's team_vote_counter while the phase is TEAM_BUILDING or
\* TEAM_VOTING, so that a new quest slot starts at 0.
C38_FailedVotesCount ==
    /\ failed_votes_count \in 0..MAX_FAILED_VOTES
    /\ phase # "GAME_END" => failed_votes_count < MAX_FAILED_VOTES
    /\ phase \in {"QUEST", "ASSASSINATION"} => failed_votes_count = 0
    /\ phase \in {"TEAM_BUILDING", "TEAM_VOTING"} =>
          failed_votes_count = CurrentQuest.team_vote_counter

\* the second quest slot opens at 0 after a first slot with two rejections
C38_Witness ==
    /\ phase = "TEAM_BUILDING"
    /\ current_quest_idx = 1
    /\ quests[1].team_vote_counter = 2
    /\ CurrentQuest.team_vote_counter = 0
    /\ failed_votes_count = 0

\* four rejections in a row on the second quest, the game still running
C38_WitnessFour ==
    /\ phase = "TEAM_VOTING"
    /\ current_quest_idx = 1
    /\ failed_votes_count = MAX_FAILED_VOTES - 1
    /\ CurrentQuest.team_vote_counter = MAX_FAILED_VOTES - 1

---------------------------------------------------------------------------
(* who can fail a quest *)

\* the EVIL members of a quest's team
EvilOnTeam(q) == {p \in Range(q.team) : players[p].team = EVIL}

\* C39: a quest with result FAIL has at least fails_required EVIL players
\* on its team, and a completed quest with no EVIL member has result
\* SUCCESS; while a team without EVIL members is on its quest, every
\* vote_on_quest with FAIL is refused and leaves the game as it is, and
\* whatever call is made, by any player with any vote, the quest has no FAIL
\* vote and does not end with FAIL.
C39_FailNeedsEvilMembers ==
    /\ \A i \in DOMAIN quests :
          /\ quests[i].result = "FAIL" =>
                Cardinality(EvilOnTeam(quests[i])) >= quests[i].fails_required
          /\ (quests[i].result # "NOT_STARTED" /\ EvilOnTeam(quests[i]) = {}) =>
                quests[i].result = "SUCCESS"
    /\ (phase = "QUEST" /\ EvilOnTeam(CurrentQuest) = {}) =>
          \A p \in PlayerIds : \A v \in VoteType :
             LET r == vote_on_quest(Game, p, v)
                 q == r.g.quests[current_quest_idx + 1]
             IN  /\ v = "FAIL" => (r.err # "ok" /\ r.g = Game)
                 /\ FailVotes(q) = 0
                 /\ q.result \in {"NOT_STARTED", "SUCCESS"}

\* a member of a team without EVIL players has tried to vote FAIL
C39_Witness ==
    /\ call = [op |-> "vote_on_quest", err |-> "good_fail"]
    /\ phase = "QUEST"
    /\ EvilOnTeam(CurrentQuest) = {}
    /\ CurrentQuest.in_quest_votes # EmptyDict

\* a quest that needs two FAIL votes, with one EVIL member who voted FAIL,
\* has succeeded
C39_WitnessOneEvil ==
    \E i \in DOMAIN quests :
        /\ quests[i].fails_required = 2
        /\ Cardinality(EvilOnTeam(quests[i])) = 1
        /\ FailVotes(quests[i]) = 1
        /\ quests[i].result = "SUCCESS"

\* a quest has failed by the votes of exactly fails_required EVIL members
C39_WitnessFail ==
    \E i \in DOMAIN quests :
        /\ quests[i].result = "FAIL"
        /\ quests[i].fails_required = 2
        /\ Cardinality(EvilOnTeam(quests[i])) = 2

===========================================================================
